---------------------------- MODULE Spec2Model ----------------------------
(***************************************************************************)
(* Model of the decyb race-track converters:                               *)
(*   cli/src/json2gpx.js          generateGPX                              *)
(*   json2gpx_with_overlay.js     generateGPXWithOverlays (unnamed/part_001)*)
(*                                parseArgs, parseGpxTrack, main           *)
(*   download_garmin_gpx.js       downloadFile, convertToGpxUrl, main      *)
(*                                (source at the end of README_json2gpx.md)*)
(*   download_garmin_gpx_enhanced.js  the same with more reporting         *)
(*                                                                         *)
(* Specifications.                                                         *)
(*   Spec            the two converters called as functions                *)
(*   MainSpec        a run of the overlay converter from the command line  *)
(*   DownloaderSpec  a run of either downloader, with fairness             *)
(*                                                                         *)
(* Representation.                                                         *)
(*  - A JSON object is a function whose DOMAIN is the set of keys it       *)
(*    carries; `o.k !== undefined` is `k \in DOMAIN o`.                    *)
(*  - A JS string is a sequence of atoms.  An atom is either one character *)
(*    of the input alphabet or a literal chunk of the program text that    *)
(*    holds no reserved XML character ("Boat ID: ", "amp;", ...).  The     *)
(*    reserved characters & < > " ' are always atoms of their own, so a    *)
(*    global replace acts on exactly the atoms equal to its pattern.       *)
(*  - The document built in `gpx` is the sequence of its pieces in order:  *)
(*    markup literals of the template ("<trk>", "<name>", ...), rendered   *)
(*    numbers, and the atoms of every inserted text.                       *)
(***************************************************************************)
EXTENDS Integers, Sequences, FiniteSets, TLC

VARIABLES
    loaded,      \* the position log as the Loader parsed it (never written)
    positions,   \* the position log in memory (array of boat records)
    raceSetup,   \* the parsed roster
    overlays,    \* the overlay groups handed to generateGPXWithOverlays
    clock,       \* wall clock, epoch seconds; every call takes one tick
    gpx,         \* value returned by the last call (<<>> before any return)
    called,      \* which converter the last call was
    threw,       \* whether the last call ended by an exception
    before,      \* positions as they were when the last call began
    prevGpx,     \* value returned by the call before the last one
    prevCalled,  \* which converter that was
    runs,        \* number of calls made
    argv,        \* process.argv.slice(2) of a run of a command-line tool
    opts,        \* what parseArgs returned
    files,       \* the file system: path -> content (an absent path is unreadable)
    locked,      \* the paths that cannot be written
    web,         \* the servers: URL -> answer (an absent URL cannot be reached)
    pc,          \* where the run of main stands
    exitCode,    \* the exit code of the process, once pc = "exited"
    dl,          \* the promise of the downloadFile call and its request in flight
    fetched,     \* the URLs a request was issued to
    cursor       \* the place in args.overlays that main's loop has reached

libVars == <<loaded, positions, raceSetup, overlays, clock, gpx, called, threw,
             before, prevGpx, prevCalled, runs>>

runVars == <<argv, opts, files, locked, web, pc, exitCode, dl, fetched, cursor>>

vars == <<libVars, runVars>>

(***************************************************************************)
(* Bounds of the model.                                                    *)
(***************************************************************************)
MaxBoats   == 2   \* records in the position log
MaxId      == 2   \* boat ids are 1..MaxId
MaxMoments == 3   \* moments of the boat whose order is explored
MaxAt      == 2   \* timestamps are 1..MaxAt
MaxText    == 2   \* length of an explored input text
MaxRuns    == 2   \* calls of a converter on the same structures
MaxOverlays == 2  \* overlay groups handed to the overlay converter

(***************************************************************************)
(* JS value helpers.                                                       *)
(***************************************************************************)
Has(o, k) == k \in DOMAIN o

\* `o.k || dflt` for a string-valued key: absent and '' are falsy.
OrText(o, k, dflt) == IF Has(o, k) /\ o[k] # <<>> THEN o[k] ELSE dflt

\* The number NaN (what parseFloat and Date.prototype.getTime give for a text
\* they cannot read).  Every other number of the model is a natural number.
NaN == -1

\* `${n}` for a number.
Num(n) == IF n = NaN THEN "NaN" ELSE ToString(n)

\* `${o.k}` for a number-valued key: an absent key renders as "undefined".
NumField(o, k) == IF Has(o, k) THEN Num(o[k]) ELSE "undefined"

RECURSIVE Flatten(_)
Flatten(ss) == IF ss = <<>> THEN <<>> ELSE Head(ss) \o Flatten(Tail(ss))

(***************************************************************************)
(* timestampToISO: new Date(timestamp * 1000).toISOString().               *)
(* The proleptic Gregorian date of an epoch second, "YYYY-MM-DDTHH:MM:SS.000Z". *)
(***************************************************************************)
SecondsPerDay == 86400

Pad2(n) == IF n < 10 THEN "0" \o ToString(n) ELSE ToString(n)

Pad4(n) ==
    IF n < 10 THEN "000" \o ToString(n)
    ELSE IF n < 100 THEN "00" \o ToString(n)
    ELSE IF n < 1000 THEN "0" \o ToString(n)
    ELSE ToString(n)

CivilFromDays(days) ==
    LET z   == days + 719468
        era == z \div 146097
        doe == z - era * 146097
        yoe == (doe - (doe \div 1460) + (doe \div 36524) - (doe \div 146096)) \div 365
        doy == doe - (365 * yoe + (yoe \div 4) - (yoe \div 100))
        mp  == (5 * doy + 2) \div 153
        d   == doy - ((153 * mp + 2) \div 5) + 1
        m   == IF mp < 10 THEN mp + 3 ELSE mp - 9
        y   == yoe + era * 400 + (IF m <= 2 THEN 1 ELSE 0)
    IN  [y |-> y, m |-> m, d |-> d]

timestampToISO(timestamp) ==
    LET date == CivilFromDays(timestamp \div SecondsPerDay)
        secs == timestamp % SecondsPerDay
    IN  Pad4(date.y) \o "-" \o Pad2(date.m) \o "-" \o Pad2(date.d) \o "T"
        \o Pad2(secs \div 3600) \o ":" \o Pad2((secs % 3600) \div 60) \o ":"
        \o Pad2(secs % 60) \o ".000Z"

(***************************************************************************)
(* escapeXml: five global replaces applied one after the other, & first.   *)
(***************************************************************************)
RECURSIVE ReplaceAll(_, _, _)
ReplaceAll(text, c, ent) ==
    IF text = <<>> THEN <<>>
    ELSE (IF Head(text) = c THEN ent ELSE <<Head(text)>>)
         \o ReplaceAll(Tail(text), c, ent)

\* A plausible slip: the & replace applied last re-escapes the entities.
escapeXmlAmpLast(text) ==
    IF text = <<>> THEN <<>>
    ELSE ReplaceAll(
           ReplaceAll(
             ReplaceAll(
               ReplaceAll(
                 ReplaceAll(text, "<", <<"&", "lt;">>),
                 ">", <<"&", "gt;">>),
               "\"", <<"&", "quot;">>),
             "'", <<"&", "apos;">>),
           "&", <<"&", "amp;">>)

escapeXml(text) ==
    IF text = <<>> THEN <<>>
    ELSE ReplaceAll(
           ReplaceAll(
             ReplaceAll(
               ReplaceAll(
                 ReplaceAll(text, "&", <<"&", "amp;">>),
                 "<", <<"&", "lt;">>),
               ">", <<"&", "gt;">>),
             "\"", <<"&", "quot;">>),
           "'", <<"&", "apos;">>)

\* escapeXml(o.k): an absent key is undefined, which `!text` maps to ''.
escapeXmlField(o, k) == IF Has(o, k) THEN escapeXml(o[k]) ELSE <<>>

(***************************************************************************)
(* boat.moments.sort((a, b) => a.at - b.at): the in-place, stable          *)
(* Array.prototype.sort.  A comparator result of NaN (an absent `at`)      *)
(* counts as +0.                                                           *)
(***************************************************************************)
compare(a, b) == IF Has(a, "at") /\ Has(b, "at") THEN a.at - b.at ELSE 0

RECURSIVE InsertAfterTies(_, _)
InsertAfterTies(s, x) ==
    IF s = <<>> THEN <<x>>
    ELSE IF compare(Head(s), x) > 0 THEN <<x>> \o s
    ELSE <<Head(s)>> \o InsertAfterTies(Tail(s), x)

RECURSIVE StableSort(_)
StableSort(s) ==
    IF s = <<>> THEN <<>>
    ELSE InsertAfterTies(StableSort(SubSeq(s, 1, Len(s) - 1)), s[Len(s)])

RECURSIVE InsertBeforeTies(_, _)
InsertBeforeTies(s, x) ==
    IF s = <<>> THEN <<x>>
    ELSE IF compare(Head(s), x) >= 0 THEN <<x>> \o s
    ELSE <<Head(s)>> \o InsertBeforeTies(Tail(s), x)

RECURSIVE UnstableSort(_)
UnstableSort(s) ==
    IF s = <<>> THEN <<>>
    ELSE InsertBeforeTies(UnstableSort(SubSeq(s, 1, Len(s) - 1)), s[Len(s)])

\* A plausible slip: a sort that is not stable (equal keys come out reversed).
sortMomentsUnstable(moments) == UnstableSort(moments)

\* A plausible slip: moments of one timestamp merged into the first of them.
RECURSIVE KeepFirstOfTies(_)
KeepFirstOfTies(s) ==
    IF Len(s) <= 1 THEN s
    ELSE LET kept == KeepFirstOfTies(SubSeq(s, 1, Len(s) - 1))
         IN  IF compare(kept[Len(kept)], s[Len(s)]) = 0 THEN kept
             ELSE Append(kept, s[Len(s)])

sortMomentsMerging(moments) == KeepFirstOfTies(StableSort(moments))

sortMoments(moments) == StableSort(moments)

Reorderings(s) ==
    LET n == Len(s)
    IN  { [i \in 1..n |-> s[p[i]]] :
            p \in { q \in [1..n -> 1..n] : \A i, j \in 1..n : i # j => q[i] # q[j] } }

\* What the array can hold after the sort.  With every `at` present the
\* comparator is a consistent order and the result is the stable sort; with an
\* absent `at` the comparator is inconsistent and the order is
\* implementation-defined.
SortOutcomes(moments) ==
    IF \A i \in 1..Len(moments) : Has(moments[i], "at")
    THEN {sortMoments(moments)}
    ELSE Reorderings(moments)

(***************************************************************************)
(* One track point of a boat (json2gpx.js 110-134).                        *)
(***************************************************************************)
\* moment.dtf || 0
dtfOrZero(moment) == IF Has(moment, "dtf") /\ moment.dtf # 0 THEN moment.dtf ELSE 0

\* A plausible slip: the optional fields tested by truthiness, dropping a 0.
optionalExtTruthy(moment, key, tag) ==
    IF Has(moment, key) /\ moment[key] # 0
    THEN <<"<" \o tag \o ">", Num(moment[key]), "</" \o tag \o ">">>
    ELSE <<>>

\* if (moment.<key> !== undefined) gpx += <tag>${moment.<key>}</tag>
optionalExt(moment, key, tag) ==
    IF Has(moment, key)
    THEN <<"<" \o tag \o ">", Num(moment[key]), "</" \o tag \o ">">>
    ELSE <<>>

\* timestampToISO(undefined) is new Date(NaN).toISOString(): a RangeError.
momentThrows(moment) == ~Has(moment, "at")

momentPoint(moment) ==
    <<"<trkpt lat=\"", NumField(moment, "lat"), "\" lon=\"", NumField(moment, "lon"),
      "\">", "<time>", timestampToISO(moment.at), "</time>",
      "<extensions>", "<dtf>", Num(dtfOrZero(moment)), "</dtf>">>
    \o optionalExt(moment, "alt", "ele")
    \o optionalExt(moment, "lap", "lap")
    \o optionalExt(moment, "pc", "pc")
    \o <<"</extensions>", "</trkpt>">>

(***************************************************************************)
(* The roster lookup table and one boat track (json2gpx.js 78-139).        *)
(***************************************************************************)
\* A plausible slip: the first team with an id kept, later ones ignored.
RECURSIVE putTeamsFirstWins(_, _)
putTeamsFirstWins(teams, table) ==
    IF teams = <<>> THEN table
    ELSE putTeamsFirstWins(Tail(teams), table @@ (Head(teams).id :> Head(teams)))

RECURSIVE putTeams(_, _)
putTeams(teams, table) ==
    IF teams = <<>> THEN table
    ELSE putTeams(Tail(teams), (Head(teams).id :> Head(teams)) @@ table)

boatToTeam(setup) ==
    IF Has(setup, "teams") THEN putTeams(setup.teams, <<>>) ELSE <<>>

\* A plausible slip: the fallback forgotten on the branch without a team.
ownerOfNoFallback(boat, table) ==
    IF boat.id \in DOMAIN table THEN OrText(table[boat.id], "owner", <<"Unknown">>)
    ELSE <<>>

boatNameOf(boat, table) ==
    IF boat.id \in DOMAIN table
    THEN OrText(table[boat.id], "name", <<"Boat ", Num(boat.id)>>)
    ELSE <<"Boat ", Num(boat.id)>>

ownerOf(boat, table) ==
    IF boat.id \in DOMAIN table THEN OrText(table[boat.id], "owner", <<"Unknown">>)
    ELSE <<"Unknown">>

modelOf(boat, table) ==
    IF boat.id \in DOMAIN table THEN OrText(table[boat.id], "model", <<"Unknown">>)
    ELSE <<"Unknown">>

countryOf(boat, table) ==
    IF boat.id \in DOMAIN table THEN OrText(table[boat.id], "country", <<"Unknown">>)
    ELSE <<"Unknown">>

sailNumberOf(boat, table) ==
    IF boat.id \in DOMAIN table THEN OrText(table[boat.id], "sail", <<>>) ELSE <<>>

\* A plausible slip: the sail part written whether or not there is a sail number.
descOfAlwaysSail(boat, table) ==
    <<"Boat ID: ", Num(boat.id), ", Owner: ">> \o ownerOf(boat, table)
    \o <<", Model: ">> \o modelOf(boat, table)
    \o <<", Country: ">> \o countryOf(boat, table)
    \o <<", Sail: ">> \o sailNumberOf(boat, table)

descOf(boat, table) ==
    <<"Boat ID: ", Num(boat.id), ", Owner: ">> \o ownerOf(boat, table)
    \o <<", Model: ">> \o modelOf(boat, table)
    \o <<", Country: ">> \o countryOf(boat, table)
    \o (IF sailNumberOf(boat, table) # <<>>
        THEN <<", Sail: ">> \o sailNumberOf(boat, table) ELSE <<>>)

\* boat.moments is undefined (TypeError on .sort) or a moment has no `at`.
boatThrows(boat) ==
    \/ ~Has(boat, "moments")
    \/ \E i \in 1..Len(boat.moments) : momentThrows(boat.moments[i])

\* The text appended for one boat; sortedMoments is the array after the sort.
boatTrack(boat, table, sortedMoments) ==
    <<"<trk>", "<name>">>
    \o escapeXml(boatNameOf(boat, table)) \o <<" (">>
    \o escapeXml(ownerOf(boat, table)) \o <<")">>
    \o <<"</name>", "<desc>">> \o escapeXml(descOf(boat, table))
    \o <<"</desc>", "<trkseg>">>
    \o Flatten([i \in 1..Len(sortedMoments) |-> momentPoint(sortedMoments[i])])
    \o <<"</trkseg>", "</trk>">>

(***************************************************************************)
(* The documents (json2gpx.js 65-143, part_001 206-312).                   *)
(***************************************************************************)
raceTitleOf(setup) == OrText(setup, "title", <<"Sailing Race">>)

metadataBlock(setup, now, descText) ==
    <<"<?xml version=\"1.0\" encoding=\"UTF-8\"?>",
      "<gpx version=\"1.1\" creator=\"decyb-gpx-converter\" xmlns=\"http://www.topografix.com/GPX/1/1\">",
      "<metadata>", "<name>">>
    \o escapeXml(raceTitleOf(setup))
    \o <<"</name>", "<time>", timestampToISO(now), "</time>",
         "<desc>", descText, "</desc>", "</metadata>">>

\* A plausible slip: a record whose id comes again later in the log is skipped
\* (the log deduplicated by id, the last record winning).
boatTracksLastWins(pos, table) ==
    Flatten([i \in 1..Len(pos) |->
                IF \E j \in (i + 1)..Len(pos) : pos[j].id = pos[i].id THEN <<>>
                ELSE boatTrack(pos[i], table, sortMoments(pos[i].moments))])

boatTracks(pos, table) ==
    Flatten([i \in 1..Len(pos) |->
                boatTrack(pos[i], table, sortMoments(pos[i].moments))])

\* `${o.k}` for a string-valued key.
TextField(o, k) == IF Has(o, k) THEN o[k] ELSE <<"undefined">>

overlayPoint(overlay, point) ==
    <<"<trkpt lat=\"", NumField(point, "lat"), "\" lon=\"", NumField(point, "lon"),
      "\">", "<time>", timestampToISO(point.at), "</time>",
      "<extensions>", "<overlay>", "true", "</overlay>", "<color>">>
    \o TextField(overlay, "color")
    \o <<"</color>", "</extensions>", "</trkpt>">>

\* A plausible slip: overlay points sorted by time as boat moments are.
overlayTrackSorted(overlay, track) ==
    <<"<trk>", "<name>">>
    \o escapeXmlField(overlay, "name") \o <<" - ">> \o escapeXmlField(track, "name")
    \o <<"</name>", "<desc>", "Overlay track from ">> \o TextField(overlay, "source")
    \o <<"</desc>", "<trkseg>">>
    \o Flatten([i \in 1..Len(track.points) |->
                   overlayPoint(overlay, sortMoments(track.points)[i])])
    \o <<"</trkseg>", "</trk>">>

overlayTrack(overlay, track) ==
    <<"<trk>", "<name>">>
    \o escapeXmlField(overlay, "name") \o <<" - ">> \o escapeXmlField(track, "name")
    \o <<"</name>", "<desc>", "Overlay track from ">> \o TextField(overlay, "source")
    \o <<"</desc>", "<trkseg>">>
    \o Flatten([i \in 1..Len(track.points) |-> overlayPoint(overlay, track.points[i])])
    \o <<"</trkseg>", "</trk>">>

\* overlay.tracks && overlay.tracks.length > 0
overlayEmitted(overlay) == Has(overlay, "tracks") /\ overlay.tracks # <<>>

overlayGroup(overlay) ==
    IF overlayEmitted(overlay)
    THEN Flatten([i \in 1..Len(overlay.tracks) |-> overlayTrack(overlay, overlay.tracks[i])])
    ELSE <<>>

\* A plausible slip: the groups written last first.
overlayTracksReversed(ovs) ==
    Flatten([i \in 1..Len(ovs) |-> overlayGroup(ovs[Len(ovs) + 1 - i])])

overlayTracks(ovs) == Flatten([i \in 1..Len(ovs) |-> overlayGroup(ovs[i])])

\* track.points is undefined (TypeError on .forEach), or the `at` of a point
\* is undefined or NaN (RangeError of toISOString).
overlayThrows(ovs) ==
    \E g \in 1..Len(ovs) :
       /\ overlayEmitted(ovs[g])
       /\ \E t \in 1..Len(ovs[g].tracks) :
             \/ ~Has(ovs[g].tracks[t], "points")
             \/ \E p \in 1..Len(ovs[g].tracks[t].points) :
                   \/ ~Has(ovs[g].tracks[t].points[p], "at")
                   \/ ovs[g].tracks[t].points[p].at = NaN

generateGPX(pos, setup, now) ==
    metadataBlock(setup, now, "Converted from race data using decyb-gpx-converter")
    \o boatTracks(pos, boatToTeam(setup))
    \o <<"</gpx>">>

\* A plausible slip: the overlay tracks written before the boat tracks.
generateGPXOverlaysFirst(pos, setup, ovs, now) ==
    metadataBlock(setup, now,
                  "Converted from race data using decyb-gpx-converter with overlays")
    \o overlayTracks(ovs)
    \o boatTracks(pos, boatToTeam(setup))
    \o <<"</gpx>">>

generateGPXWithOverlays(pos, setup, ovs, now) ==
    metadataBlock(setup, now,
                  "Converted from race data using decyb-gpx-converter with overlays")
    \o boatTracks(pos, boatToTeam(setup))
    \o overlayTracks(ovs)
    \o <<"</gpx>">>

(***************************************************************************)
(* The effect of the boat loop on the position log: every boat reached has *)
(* its moments array sorted in place; the loop stops at the first boat     *)
(* that throws.                                                            *)
(***************************************************************************)
firstThrow(pos) ==
    IF \E i \in 1..Len(pos) : boatThrows(pos[i])
    THEN CHOOSE i \in 1..Len(pos) :
            /\ boatThrows(pos[i])
            /\ \A j \in 1..(i - 1) : ~boatThrows(pos[j])
    ELSE 0

sortedInPlace(pos) ==
    [i \in 1..Len(pos) |-> [pos[i] EXCEPT !.moments = sortMoments(@)]]

\* The log after the loop stopped at boat k, whose array was left as `left`.
stoppedAt(pos, k, left) ==
    [i \in 1..Len(pos) |->
        IF i < k THEN [pos[i] EXCEPT !.moments = sortMoments(@)]
        ELSE IF i = k /\ Has(pos[i], "moments") THEN [pos[i] EXCEPT !.moments = left]
        ELSE pos[i]]

leftByThrow(boat) ==
    IF Has(boat, "moments") THEN SortOutcomes(boat.moments) ELSE {<<>>}

Bookkeeping(fn) ==
    /\ before' = positions
    /\ prevGpx' = gpx
    /\ prevCalled' = called
    /\ called' = fn
    /\ runs' = runs + 1
    /\ clock' = clock + 1
    /\ UNCHANGED <<loaded, raceSetup, overlays>>
    /\ UNCHANGED runVars

RunGenerateGPX ==
    /\ runs < MaxRuns
    /\ LET k == firstThrow(positions)
       IN  IF k = 0
           THEN /\ positions' = sortedInPlace(positions)
                /\ gpx' = generateGPX(positions, raceSetup, clock)
                /\ threw' = FALSE
           ELSE /\ \E left \in leftByThrow(positions[k]) :
                      positions' = stoppedAt(positions, k, left)
                /\ gpx' = <<>>
                /\ threw' = TRUE
    /\ Bookkeeping("generateGPX")

RunGenerateGPXWithOverlays ==
    /\ runs < MaxRuns
    /\ LET k == firstThrow(positions)
       IN  IF k = 0
           THEN /\ positions' = sortedInPlace(positions)
                /\ IF overlayThrows(overlays)
                   THEN gpx' = <<>> /\ threw' = TRUE
                   ELSE /\ gpx' = generateGPXWithOverlays(positions, raceSetup,
                                                          overlays, clock)
                        /\ threw' = FALSE
           ELSE /\ \E left \in leftByThrow(positions[k]) :
                      positions' = stoppedAt(positions, k, left)
                /\ gpx' = <<>>
                /\ threw' = TRUE
    /\ Bookkeeping("generateGPXWithOverlays")

\* readJsonFile again on the same position file: a fresh parse of the same text.
Reload ==
    /\ positions # loaded
    /\ positions' = loaded
    /\ UNCHANGED <<loaded, raceSetup, overlays, clock, gpx, called, threw,
                   before, prevGpx, prevCalled, runs>>
    /\ UNCHANGED runVars

Next == RunGenerateGPX \/ RunGenerateGPXWithOverlays \/ Reload

(***************************************************************************)
(* Inputs.  Each family explores one dimension of the input documents.     *)
(***************************************************************************)
SeqUpTo(S, n) == UNION { [1..k -> S] : k \in 0..n }

Alphabet == {"a", "&", "<", ">", "\"", "'"}

Texts(n) == SeqUpTo(Alphabet, n)

NoKeys == <<>>   \* the object {}

\* A moment; its latitude tells it from the others of its boat.
Mom(at, tag) == [lat |-> tag, lon |-> 0, at |-> at, dtf |-> tag]

TeamA == [id |-> 1, name |-> <<"n">>, owner |-> <<"o">>, model |-> <<"m">>,
          country |-> <<"c">>, sail |-> <<"s">>]

RosterA == [title |-> <<"r">>, teams |-> <<TeamA>>]

\* One boat, every sequence of up to MaxMoments timestamps (so every order and
\* every pattern of ties); the k-th moment of the input carries tag k.
SortInputs ==
    { [positions |-> <<[id |-> 1, moments |-> [k \in DOMAIN ats |-> Mom(ats[k], k)]]>>,
       raceSetup |-> RosterA, overlays |-> <<>>] :
      ats \in SeqUpTo(1..MaxAt, MaxMoments) }

\* Several boats, ids repeated or not, with and without a roster entry.
LogInputs ==
    { [positions |-> ps, raceSetup |-> r, overlays |-> <<>>] :
      ps \in SeqUpTo({ [id |-> i, moments |-> ms] :
                         i \in 1..MaxId,
                         ms \in {<<Mom(1, 0)>>, <<Mom(2, 0), Mom(1, 1)>>} },
                     MaxBoats),
      r \in {RosterA, NoKeys} }

\* One moment, every combination of present and absent extension fields.
OptionalFields(key, vals) == {NoKeys} \cup { (key :> v) : v \in vals }

FieldInputs ==
    { [positions |-> <<[id |-> 1, moments |-> <<[lat |-> 5, lon |-> 7, at |-> 1] @@ d @@ a @@ l @@ p>>]>>,
       raceSetup |-> RosterA, overlays |-> <<>>] :
      d \in OptionalFields("dtf", {0, 1}), a \in OptionalFields("alt", {0, 2}),
      l \in OptionalFields("lap", {0, 3}), p \in OptionalFields("pc", {0, 4}) }

\* Rosters: texts with reserved characters, absent and empty fields.
Rosters ==
    { [title |-> <<"r">>, teams |-> <<[id |-> 1, name |-> t, owner |-> <<"o">>]>>] :
        t \in Texts(MaxText) }
    \cup { [teams |-> <<[id |-> 1, name |-> <<"n">>] @@ (k :> t)>>] :
             k \in {"owner", "model", "country", "sail"}, t \in Texts(1) }
    \cup { [title |-> t] : t \in Texts(1) }

\* The team of the documented example: no sail number.
TeamExample == [id |-> 1, name |-> <<"Aimant de Fille">>, owner |-> <<"Steven Ernest">>,
                model |-> <<"J/145">>, country |-> <<"US">>]

SparseRosters ==
    { NoKeys, [teams |-> <<>>], [teams |-> <<[id |-> 1]>>], [teams |-> <<TeamExample>>] }

\* Rosters in which several teams share an id.
TeamOld == [id |-> 1, name |-> <<"x">>, owner |-> <<"p">>, model |-> <<"k">>,
            country |-> <<"d">>, sail |-> <<"q">>]

DuplicateRosters ==
    { [teams |-> ts] :
      ts \in { <<TeamOld, TeamA>>, <<TeamA, TeamOld>>, <<TeamOld, [id |-> 1]>>,
               <<[id |-> 1], TeamOld>>, <<TeamOld, TeamA, TeamOld>>,
               <<TeamOld, [TeamOld EXCEPT !.id = 2], TeamA>> } }

RosterInputs ==
    { [positions |-> <<[id |-> 1, moments |-> <<Mom(1, 0)>>]>>, raceSetup |-> r,
       overlays |-> <<>>] : r \in Rosters }
    \cup { [positions |-> <<[id |-> i, moments |-> <<Mom(1, 0)>>]>>, raceSetup |-> r,
             overlays |-> <<>>] : i \in 1..MaxId, r \in SparseRosters }
    \cup { [positions |-> <<[id |-> 1, moments |-> <<Mom(1, 0)>>],
                            [id |-> 1, moments |-> <<Mom(2, 1)>>]>>,
             raceSetup |-> r, overlays |-> <<>>] : r \in DuplicateRosters }

\* Records that lack a field.
UnsortedBoat == [id |-> 2, moments |-> <<Mom(2, 0), Mom(1, 1)>>]

MissingInputs ==
    { [positions |-> ps, raceSetup |-> RosterA, overlays |-> <<>>] :
      ps \in { <<[id |-> 1]>>,
               <<[id |-> 1, moments |-> <<[lat |-> 0, lon |-> 0, dtf |-> 0]>>]>>,
               <<[id |-> 1, moments |-> <<[lat |-> 0, lon |-> 0, dtf |-> 0], Mom(1, 1)>>]>>,
               <<[id |-> 2, moments |-> <<[at |-> 1]>>]>>,
               <<UnsortedBoat, [id |-> 1]>>,
               <<[id |-> 1], UnsortedBoat>>,
               <<UnsortedBoat, [id |-> 1, moments |-> <<Mom(1, 0), [lat |-> 0, lon |-> 0]>>]>> } }

PointA == [lat |-> 0, lon |-> 0, at |-> 1]

TrackA == [name |-> <<"t">>, points |-> <<PointA>>]

GroupA == [name |-> <<"g">>, color |-> <<"F">>, source |-> <<"s">>, tracks |-> <<TrackA>>]

OverlayGroups ==
    { [GroupA EXCEPT ![k] = t] : k \in {"name", "color", "source"}, t \in Texts(1) }
    \cup { [GroupA EXCEPT !.tracks = <<[TrackA EXCEPT !.name = t]>>] : t \in Texts(1) }
    \cup { [GroupA EXCEPT !.tracks = ts] :
             ts \in { <<>>, <<TrackA, [TrackA EXCEPT !.points = <<PointA, [PointA EXCEPT !.at = 2]>>]>>,
                      <<[name |-> <<"t">>]>>, <<[points |-> <<PointA>>]>>,
                      <<[TrackA EXCEPT !.points = <<>>]>>,
                      <<[TrackA EXCEPT !.points = <<[lat |-> 1, lon |-> 0, at |-> 2], PointA>>]>>,
                      <<[TrackA EXCEPT !.points = <<[lat |-> 0, lon |-> 0]>>]>> } }
    \cup { [name |-> <<"g">>, color |-> <<"F">>, source |-> <<"s">>] }

GroupB == [name |-> <<"h">>, color |-> <<"0">>, source |-> <<"u">>,
           tracks |-> <<[name |-> <<"v">>, points |-> <<[PointA EXCEPT !.at = 2]>>]>>]

\* One group of every kind, and lists of up to MaxOverlays plain groups.
OverlayInputs ==
    { [positions |-> <<[id |-> 1, moments |-> <<Mom(2, 0), Mom(1, 1)>>]>>,
       raceSetup |-> RosterA, overlays |-> os] :
      os \in { <<g>> : g \in OverlayGroups }
             \cup (SeqUpTo({GroupA, GroupB}, MaxOverlays) \ {<<>>}) }

\* The converters called as functions: no process, no file, no request.
NoDownload == [state |-> "idle", url |-> <<>>, path |-> <<>>, first |-> <<>>,
               request |-> 0, idle |-> FALSE, error |-> <<>>]

NoRun ==
    /\ argv = <<>> /\ opts = <<>> /\ files = <<>> /\ locked = {} /\ web = <<>>
    /\ pc = "library" /\ exitCode = 0
    /\ dl = NoDownload /\ fetched = {} /\ cursor = 1

Inputs ==
    SortInputs \cup LogInputs \cup FieldInputs \cup RosterInputs
    \cup MissingInputs \cup OverlayInputs

Init ==
    /\ \E in \in Inputs :
          /\ loaded = in.positions
          /\ positions = in.positions
          /\ raceSetup = in.raceSetup
          /\ overlays = in.overlays
    /\ clock = 0
    /\ gpx = <<>>
    /\ called = "none"
    /\ threw = FALSE
    /\ before = positions
    /\ prevGpx = <<>>
    /\ prevCalled = "none"
    /\ runs = 0
    /\ NoRun

Spec == Init /\ [][Next]_vars

(***************************************************************************)
(* parseGpxTrack (part_001 134-173).  An overlay document is the sequence  *)
(* of the pieces its patterns tell apart, each a record with its kind `k`: *)
(*   "trk", "trkseg", "trkpt"  an opening tag (a trkpt carries `lat` and   *)
(*                             `lon` when both are there, lat first)       *)
(*   "/trk", "/trkpt", "/trkseg"  a closing tag                            *)
(*   "name", "time"            an element whose text holds no "<"          *)
(*   "other"                   anything else                               *)
(***************************************************************************)
\* parseFloat of an attribute text.
parseFloat(text) ==
    CASE text = "0" -> 0
      [] text = "1" -> 1
      [] text = "5" -> 5
      [] text = "7" -> 7
      [] OTHER -> NaN

\* new Date(text).getTime() / 1000
DateSeconds(text) ==
    CASE text = "1970-01-01T00:00:01Z" -> 1
      [] text = "1970-01-01T00:00:02.000Z" -> 2
      [] text = "1970-01-01T00:00:03+00:00" -> 3
      [] OTHER -> NaN

\* The first place from `from` on of a piece of one of the kinds whose
\* index is marked, 0 if none: where exec finds the next match.
FirstPlace(marks, from) ==
    IF \E i \in from..Len(marks) : marks[i]
    THEN CHOOSE i \in from..Len(marks) :
            marks[i] /\ \A j \in from..(i - 1) : ~marks[j]
    ELSE 0

\* /<trk[^>]*>/ : any tag whose name begins with trk.
OpensTrack(piece) == piece.k \in {"trk", "trkseg", "trkpt"}

ClosesTrack(piece) == piece.k = "/trk"

\* /<trkpt[^>]*lat="([^"]*)"[^>]*lon="([^"]*)"[^>]*>/
OpensPoint(piece) == piece.k = "trkpt" /\ Has(piece, "lat") /\ Has(piece, "lon")

ClosesPoint(piece) == piece.k = "/trkpt"

IsTime(piece) == piece.k = "time"

IsName(piece) == piece.k = "name"

TrackOpenings(text) == [i \in 1..Len(text) |-> OpensTrack(text[i])]

TrackClosings(text) == [i \in 1..Len(text) |-> ClosesTrack(text[i])]

PointOpenings(text) == [i \in 1..Len(text) |-> OpensPoint(text[i])]

PointClosings(text) == [i \in 1..Len(text) |-> ClosesPoint(text[i])]

Times(text) == [i \in 1..Len(text) |-> IsTime(text[i])]

Names(text) == [i \in 1..Len(text) |-> IsName(text[i])]

\* One match of trkptRegex in trackContent.
pointOf(opening, pointContent, now) ==
    [lat |-> parseFloat(opening.lat),
     lon |-> parseFloat(opening.lon),
     at  |-> IF FirstPlace(Times(pointContent), 1) # 0
             THEN DateSeconds(pointContent[FirstPlace(Times(pointContent), 1)].text)
             ELSE now]

\* while ((pointMatch = trkptRegex.exec(trackContent)) !== null): the pattern
\* is global and shared by all tracks, so every exec scans from the place
\* the pattern remembers (lastIndex; here the index of a piece, 1 for the
\* start) and a failed exec, which ends the loop, sets it back to the start.
\* A plausible slip: the place kept when nothing more is found.
RECURSIVE pointLoopKeepingPlace(_, _, _)
pointLoopKeepingPlace(trackContent, lastIndex, now) ==
    LET p == FirstPlace(PointOpenings(trackContent), lastIndex)
        q == IF p = 0 THEN 0 ELSE FirstPlace(PointClosings(trackContent), p + 1)
        rest == pointLoopKeepingPlace(trackContent, q + 1, now)
    IN  IF q = 0 THEN [points |-> <<>>, lastIndex |-> lastIndex]
        ELSE [points |-> <<pointOf(trackContent[p], SubSeq(trackContent, p + 1, q - 1),
                                   now)>> \o rest.points,
              lastIndex |-> rest.lastIndex]

RECURSIVE pointLoop(_, _, _)
pointLoop(trackContent, lastIndex, now) ==
    LET p == FirstPlace(PointOpenings(trackContent), lastIndex)
        q == IF p = 0 THEN 0 ELSE FirstPlace(PointClosings(trackContent), p + 1)
        rest == pointLoop(trackContent, q + 1, now)
    IN  IF q = 0 THEN [points |-> <<>>, lastIndex |-> 1]
        ELSE [points |-> <<pointOf(trackContent[p], SubSeq(trackContent, p + 1, q - 1),
                                   now)>> \o rest.points,
              lastIndex |-> rest.lastIndex]

trackNameOf(trackContent) ==
    IF FirstPlace(Names(trackContent), 1) # 0
    THEN trackContent[FirstPlace(Names(trackContent), 1)].text
    ELSE <<"Unknown Track">>

\* A plausible slip: the track kept although no point was found in it.
tracksOfKeepEmpty(trackContent, points) ==
    <<[name |-> trackNameOf(trackContent), points |-> points]>>

\* if (points.length > 0) tracks.push({name, points})
tracksOf(trackContent, points) ==
    IF points # <<>>
    THEN <<[name |-> trackNameOf(trackContent), points |-> points]>>
    ELSE <<>>

\* while ((match = trackRegex.exec(gpxData)) !== null)
RECURSIVE tracksFrom(_, _, _, _)
tracksFrom(gpxData, from, lastIndex, now) ==
    LET i == FirstPlace(TrackOpenings(gpxData), from)
        j == IF i = 0 THEN 0 ELSE FirstPlace(TrackClosings(gpxData), i + 1)
        found == pointLoop(SubSeq(gpxData, i + 1, j - 1), lastIndex, now)
    IN  IF j = 0 THEN <<>>
        ELSE tracksOf(SubSeq(gpxData, i + 1, j - 1), found.points)
             \o tracksFrom(gpxData, j + 1, found.lastIndex, now)

\* A fresh pattern on every call: lastIndex starts at 0.
parseGpxTrack(gpxData, now) == tracksFrom(gpxData, 1, 1, now)

(***************************************************************************)
(* download_garmin_gpx.js (its source is the tail of README_json2gpx.md).  *)
(* A URL, like every command-line argument, is the sequence of its parts   *)
(* between slashes: <<"https:", "share.garmin.com", "zimmer">>.            *)
(***************************************************************************)
\* The digits a URL part begins with (the \d+ of /activity\/(\d+)/).
LeadingDigits(part) ==
    CASE part = "123"  -> <<"123">>
      [] part = "7x"   -> <<"7">>
      [] OTHER         -> <<>>

\* The parts that end with `activity` (the pattern is not anchored).
EndsWithActivity(part) == part \in {"activity", "myactivity"}

\* A plausible slip: the last activity id of the URL taken, not the first.
extractLastActivityId(garminUrl) ==
    LET hits == { i \in 1..(Len(garminUrl) - 1) :
                    EndsWithActivity(garminUrl[i]) /\ LeadingDigits(garminUrl[i + 1]) # <<>> }
    IN  IF hits = {} THEN <<>>
        ELSE LeadingDigits(garminUrl[(CHOOSE i \in hits : \A j \in hits : j <= i) + 1])

\* garminUrl.match(/activity\/(\d+)/): the first place that matches, or null.
extractActivityId(garminUrl) ==
    LET hits == { i \in 1..(Len(garminUrl) - 1) :
                    EndsWithActivity(garminUrl[i]) /\ LeadingDigits(garminUrl[i + 1]) # <<>> }
    IN  IF hits = {} THEN <<>>
        ELSE LeadingDigits(garminUrl[(CHOOSE i \in hits : \A j \in hits : i <= j) + 1])

convertToGpxUrl(garminUrl) ==
    IF extractActivityId(garminUrl) # <<>>
    THEN <<"https:", "connect.garmin.com", "modern", "proxy", "activity-service-1.1",
           "json", "activity">> \o extractActivityId(garminUrl) \o <<"details">>
    ELSE garminUrl

\* The same two functions as download_garmin_gpx_enhanced.js has them.
enhancedExtractActivityId(garminUrl) ==
    LET hits == { i \in 1..(Len(garminUrl) - 1) :
                    EndsWithActivity(garminUrl[i]) /\ LeadingDigits(garminUrl[i + 1]) # <<>> }
    IN  IF hits = {} THEN <<>>
        ELSE LeadingDigits(garminUrl[(CHOOSE i \in hits : \A j \in hits : i <= j) + 1])

enhancedConvertToGpxUrl(garminUrl) ==
    IF enhancedExtractActivityId(garminUrl) # <<>>
    THEN <<"https:", "connect.garmin.com", "modern", "proxy", "activity-service-1.1",
           "json", "activity">> \o enhancedExtractActivityId(garminUrl) \o <<"details">>
    ELSE garminUrl

\* request.setTimeout(30000, ...): milliseconds of silence on the socket.
requestTimeout == 30000

\* The answer of the servers to a request for `u`; a host that cannot be
\* reached is a transport error, and an answer that comes `after` a silence
\* as long as the timeout is never seen.
Answer(u) ==
    IF u \in DOMAIN web
    THEN IF Has(web[u], "after") /\ web[u].after >= requestTimeout
         THEN [hang |-> TRUE]
         ELSE web[u]
    ELSE [error |-> "ENOTFOUND"]

\* response.statusMessage
statusMessage(ans) == IF Has(ans, "message") THEN ans.message ELSE ""

IsRedirect(ans) == Has(ans, "status") /\ ans.status >= 300 /\ ans.status < 400

Pending == dl.state = "pending"

\* downloadFile(urlString, outputPath): a promise and the first request.
\* `request` tells the request in flight from the one before it (the parity
\* of the number of hops), so that every re-fetch is a step.
CallDownloadFile(urlString, outputPath) ==
    /\ dl' = [state |-> "pending", url |-> urlString, path |-> outputPath,
              first |-> urlString, request |-> 0, idle |-> FALSE, error |-> <<>>]
    /\ fetched' = {urlString}

Reject(message) == dl' = [dl EXCEPT !.state = "rejected", !.error = message]

\* While the promise is pending the caller waits: nothing else moves.
Awaiting ==
    /\ UNCHANGED <<argv, opts, locked, web, pc, exitCode, cursor>>
    /\ UNCHANGED libVars

\* A 3xx answer with a location: downloadFile(location, outputPath) again,
\* its outcome handed to this promise.  Nothing counts the hops.
FollowRedirect ==
    /\ Pending
    /\ IsRedirect(Answer(dl.url)) /\ Has(Answer(dl.url), "location")
    /\ dl' = [dl EXCEPT !.url = Answer(dl.url).location,
                        !.request = 1 - @,
                        !.idle = @ \/ Answer(dl.url).open]
    /\ fetched' = fetched \cup {Answer(dl.url).location}
    /\ UNCHANGED files
    /\ Awaiting

\* A 3xx answer without a location: url.parse(undefined) throws in the
\* executor of the inner promise, which rejects.
RedirectNowhere ==
    /\ Pending
    /\ IsRedirect(Answer(dl.url)) /\ ~Has(Answer(dl.url), "location")
    /\ Reject(<<"ERR_INVALID_ARG_TYPE">>)
    /\ UNCHANGED <<fetched, files>>
    /\ Awaiting

\* A plausible slip: the write stream opened before the status is looked at.
RejectStatusAfterOpen ==
    /\ Pending
    /\ Has(Answer(dl.url), "status") /\ ~IsRedirect(Answer(dl.url))
    /\ Answer(dl.url).status # 200
    /\ Reject(<<"HTTP ", ToString(Answer(dl.url).status), ": ",
                statusMessage(Answer(dl.url))>>)
    /\ files' = IF dl.path \in locked THEN files ELSE (dl.path :> [gpx |-> <<>>]) @@ files
    /\ UNCHANGED fetched
    /\ Awaiting

\* Any other status than 200.
RejectStatus ==
    /\ Pending
    /\ Has(Answer(dl.url), "status") /\ ~IsRedirect(Answer(dl.url))
    /\ Answer(dl.url).status # 200
    /\ Reject(<<"HTTP ", ToString(Answer(dl.url).status), ": ",
                statusMessage(Answer(dl.url))>>)
    /\ UNCHANGED <<fetched, files>>
    /\ Awaiting

\* Status 200: the body is piped to the output path; `finish` resolves.
ReceiveFile ==
    /\ Pending
    /\ Has(Answer(dl.url), "status") /\ Answer(dl.url).status = 200
    /\ ~Has(Answer(dl.url), "stall")
    /\ dl.path \notin locked
    /\ files' = (dl.path :> [gpx |-> Answer(dl.url).body]) @@ files
    /\ dl' = [dl EXCEPT !.state = "resolved"]
    /\ UNCHANGED fetched
    /\ Awaiting

\* Status 200 and a body that stops coming: the file holds what came (here
\* nothing yet) when the idle timer destroys the request and rejects;
\* `finish` never fires and nothing unlinks the file.
ReceiveStalled ==
    /\ Pending
    /\ Has(Answer(dl.url), "status") /\ Answer(dl.url).status = 200
    /\ Has(Answer(dl.url), "stall")
    /\ dl.path \notin locked
    /\ files' = (dl.path :> [gpx |-> <<>>]) @@ files
    /\ Reject(<<"Request timeout">>)
    /\ UNCHANGED fetched
    /\ Awaiting

\* Status 200 and the write stream emits `error`: unlink and reject.
FileError ==
    /\ Pending
    /\ Has(Answer(dl.url), "status") /\ Answer(dl.url).status = 200
    /\ dl.path \in locked
    /\ Reject(<<"EACCES">>)
    /\ UNCHANGED <<fetched, files>>
    /\ Awaiting

\* request.on('error')
RequestError ==
    /\ Pending
    /\ Has(Answer(dl.url), "error")
    /\ Reject(<<Answer(dl.url).error>>)
    /\ UNCHANGED <<fetched, files>>
    /\ Awaiting

\* No answer: the request's idle timer destroys it and rejects.
RequestTimeout ==
    /\ Pending
    /\ Has(Answer(dl.url), "hang")
    /\ Reject(<<"Request timeout">>)
    /\ UNCHANGED <<fetched, files>>
    /\ Awaiting

\* The idle timer of an earlier request of the chain, whose redirect answer
\* was never read: it fires if that server left the connection open, and
\* rejects the promise of the first call.
EarlierRequestTimeout ==
    /\ Pending
    /\ dl.idle
    /\ Reject(<<"Request timeout">>)
    /\ UNCHANGED <<fetched, files>>
    /\ Awaiting

(***************************************************************************)
(* The downloader run from the command line (main of download_garmin_gpx). *)
(***************************************************************************)
Exit(code) == pc' = "exited" /\ exitCode' = code

\* parseArgs: no argument is a usage error; the output file has a default.
DownloaderParseArgs ==
    /\ pc = "downloader"
    /\ IF Len(argv) < 1
       THEN Exit(1) /\ UNCHANGED opts
       ELSE /\ opts' = [garminUrl |-> argv[1],
                        outputFile |-> IF Len(argv) >= 2 /\ argv[2] # <<>>
                                       THEN argv[2] ELSE <<"garmin_track.gpx">>]
            /\ pc' = "convert" /\ UNCHANGED exitCode
    /\ UNCHANGED <<argv, files, locked, web, dl, fetched, cursor>>
    /\ UNCHANGED libVars

\* const gpxUrl = convertToGpxUrl(args.garminUrl); await downloadFile(gpxUrl, ...)
DownloaderFetch ==
    /\ pc = "convert"
    /\ CallDownloadFile(convertToGpxUrl(opts.garminUrl), opts.outputFile)
    /\ pc' = "await"
    /\ UNCHANGED <<argv, opts, files, locked, web, exitCode, cursor>>
    /\ UNCHANGED libVars

\* main of download_garmin_gpx_enhanced.js: the same parseArgs, its own
\* convertToGpxUrl, and a downloadFile that settles as the basic one does.
EnhancedParseArgs ==
    /\ pc = "enhanced"
    /\ IF Len(argv) < 1
       THEN Exit(1) /\ UNCHANGED opts
       ELSE /\ opts' = [garminUrl |-> argv[1],
                        outputFile |-> IF Len(argv) >= 2 /\ argv[2] # <<>>
                                       THEN argv[2] ELSE <<"garmin_track.gpx">>]
            /\ pc' = "convertEnhanced" /\ UNCHANGED exitCode
    /\ UNCHANGED <<argv, files, locked, web, dl, fetched, cursor>>
    /\ UNCHANGED libVars

EnhancedFetch ==
    /\ pc = "convertEnhanced"
    /\ CallDownloadFile(enhancedConvertToGpxUrl(opts.garminUrl), opts.outputFile)
    /\ pc' = "await"
    /\ UNCHANGED <<argv, opts, files, locked, web, exitCode, cursor>>
    /\ UNCHANGED libVars

\* The promise settled: main returns (exit 0) or the catch exits 1.
DownloaderEnd ==
    /\ pc = "await"
    /\ dl.state \in {"resolved", "rejected"}
    /\ Exit(IF dl.state = "resolved" THEN 0 ELSE 1)
    /\ UNCHANGED <<argv, opts, files, locked, web, dl, fetched, cursor>>
    /\ UNCHANGED libVars

DownloaderNext ==
    \/ DownloaderParseArgs \/ DownloaderFetch \/ DownloaderEnd
    \/ EnhancedParseArgs \/ EnhancedFetch
    \/ FollowRedirect \/ RedirectNowhere \/ RejectStatus \/ ReceiveFile
    \/ ReceiveStalled \/ FileError \/ RequestError \/ RequestTimeout \/ EarlierRequestTimeout

ShareUrl == <<"https:", "share.garmin.com", "zimmer">>

ActivityUrl == <<"https:", "connect.garmin.com", "modern", "activity", "123">>

OtherUrl == <<"http:", "example.org", "7x">>

Sites == {ShareUrl, ActivityUrl, convertToGpxUrl(ActivityUrl), OtherUrl}

\* A small track document as the servers deliver it.
BodyA == <<[k |-> "other"]>>

\* `open`: the server leaves the connection open after a redirect answer.
Answers ==
    { [status |-> 302, location |-> u, open |-> o] : u \in Sites, o \in BOOLEAN }
    \cup { [status |-> 301], [status |-> 200, body |-> BodyA],
           [status |-> 404, message |-> "Not Found"],
           [status |-> 204], [error |-> "ECONNRESET"], [hang |-> TRUE],
           [status |-> 200, body |-> BodyA, stall |-> TRUE] }
    \cup { [status |-> 200, body |-> BodyA, after |-> ms] :
             ms \in {requestTimeout - 1, requestTimeout} }

\* Every way two sites can answer, the others being unreachable.
Webs ==
    UNION { [{a, b} -> Answers] : a \in Sites, b \in Sites }

NoLib ==
    /\ loaded = <<>> /\ positions = <<>> /\ raceSetup = <<>> /\ overlays = <<>>
    /\ clock = 0 /\ gpx = <<>> /\ called = "none" /\ threw = FALSE
    /\ before = <<>> /\ prevGpx = <<>> /\ prevCalled = "none" /\ runs = 0

\* URLs with no, one and two activity ids, with digits followed by other
\* characters, with `activity` at the end of a longer word or of the URL.
UrlInputs ==
    { ShareUrl, ActivityUrl, OtherUrl, convertToGpxUrl(ActivityUrl),
      <<"https:", "connect.garmin.com", "activity", "7x">>,
      <<"https:", "connect.garmin.com", "activity", "abc", "activity", "123">>,
      <<"https:", "connect.garmin.com", "activity", "123", "activity", "7x">>,
      <<"https:", "connect.garmin.com", "activity", "7x", "myactivity", "123">>,
      <<"https:", "example.org", "myactivity", "123", "details">>,
      <<"https:", "connect.garmin.com", "modern", "activity">>,
      <<"https:", "connect.garmin.com", "activity-service-1.1", "123">>,
      <<"activity", "123">>, <<"123", "activity">>, <<>> }

\* Command lines of the downloader, and the world each meets.
DownloaderRuns ==
    { [argv |-> <<u>>, locked |-> {}, web |-> (convertToGpxUrl(u) :> a)] :
        u \in UrlInputs, a \in {[status |-> 200, body |-> BodyA], [status |-> 404]} }
    \cup
    { [argv |-> <<u>>, locked |-> {}, web |-> w] : u \in Sites, w \in Webs }
    \cup { [argv |-> a, locked |-> l, web |-> (ShareUrl :> [status |-> 200, body |-> BodyA])] :
             a \in {<<>>, <<ShareUrl, <<"out.gpx">>>>, <<ShareUrl, <<>>>>},
             l \in {{}, {<<"out.gpx">>}} }

DownloaderInit ==
    /\ NoLib
    /\ \E run \in DownloaderRuns :
          argv = run.argv /\ locked = run.locked /\ web = run.web
    /\ opts = <<>>
    /\ files = <<>>
    /\ pc \in {"downloader", "enhanced"} /\ exitCode = 0
    /\ dl = NoDownload /\ fetched = {} /\ cursor = 1

\* Every request is answered or times out, a timer that is armed fires, and
\* a settled promise is acted upon.
DownloaderSpec ==
    /\ DownloaderInit /\ [][DownloaderNext]_vars
    /\ WF_vars(DownloaderNext) /\ WF_vars(EarlierRequestTimeout)

(***************************************************************************)
(* The overlay converter run from the command line (part_001: parseArgs    *)
(* 18-94, readJsonFile 112-120, readGpxFile 123-131, downloadGarminGpx     *)
(* 192-203, main 315-388).                                                 *)
(***************************************************************************)
Flag(name) == <<name>>

\* args[i].startsWith('--')
StartsWithDashes(arg) ==
    arg # <<>> /\ arg[1] \in {"--overlay", "--overlay-name", "--overlay-color",
                              "--garmin-url", "--list-overlays", "--verbose"}

\* A plausible slip: the property replaced in every overlay pushed so far.
SetEvery(list, key, value) == [n \in 1..Len(list) |-> [list[n] EXCEPT ![key] = value]]

\* The last overlay pushed, with one property replaced.
SetLast(list, key, value) == [list EXCEPT ![Len(list)] = [@ EXCEPT ![key] = value]]

\* for (let i = 2; i < args.length; i++) switch (args[i]) ...; the record
\* [listed |-> TRUE] stands for the exit of --list-overlays.
RECURSIVE parseOptions(_, _, _, _)
parseOptions(args, i, options, outputFileSet) ==
    IF i > Len(args) THEN options
    ELSE IF args[i] = Flag("--overlay")
    THEN IF i + 1 <= Len(args)
         THEN parseOptions(args, i + 2,
                           [options EXCEPT !.overlays =
                               Append(@, [file |-> args[i + 1], name |-> <<"Overlay Track">>,
                                          color |-> <<"FF0000">>])],
                           outputFileSet)
         ELSE parseOptions(args, i + 1, options, outputFileSet)
    ELSE IF args[i] = Flag("--overlay-name")
    THEN IF i + 1 <= Len(args) /\ options.overlays # <<>>
         THEN parseOptions(args, i + 2,
                           [options EXCEPT !.overlays = SetLast(@, "name", args[i + 1])],
                           outputFileSet)
         ELSE parseOptions(args, i + 1, options, outputFileSet)
    ELSE IF args[i] = Flag("--overlay-color")
    THEN IF i + 1 <= Len(args) /\ options.overlays # <<>>
         THEN parseOptions(args, i + 2,
                           [options EXCEPT !.overlays = SetLast(@, "color", args[i + 1])],
                           outputFileSet)
         ELSE parseOptions(args, i + 1, options, outputFileSet)
    ELSE IF args[i] = Flag("--garmin-url")
    THEN IF i + 1 <= Len(args)
         THEN parseOptions(args, i + 2, [options EXCEPT !.garminUrl = args[i + 1]],
                           outputFileSet)
         ELSE parseOptions(args, i + 1, options, outputFileSet)
    ELSE IF args[i] = Flag("--list-overlays")
    THEN [listed |-> TRUE]
    ELSE IF ~StartsWithDashes(args[i]) /\ ~outputFileSet
    THEN parseOptions(args, i + 1, [options EXCEPT !.outputFile = args[i]], TRUE)
    ELSE parseOptions(args, i + 1, options, outputFileSet)

\* What parseArgs returns when it returns; garminUrl <<>> is null.
parseArgs(args) ==
    parseOptions(args, 3,
                 [positionsFile |-> args[1], raceSetupFile |-> args[2],
                  outputFile |-> <<"race_tracks_with_overlay.gpx">>,
                  overlays |-> <<>>, garminUrl |-> <<>>],
                 FALSE)

MainParseArgs ==
    /\ pc = "start"
    /\ IF Len(argv) = 1 /\ argv[1] = Flag("--list-overlays")
       THEN Exit(0) /\ UNCHANGED opts
       ELSE IF Len(argv) < 2
       THEN Exit(1) /\ UNCHANGED opts
       ELSE IF Has(parseArgs(argv), "listed")
       THEN Exit(0) /\ UNCHANGED opts
       ELSE opts' = parseArgs(argv) /\ pc' = "positions" /\ UNCHANGED exitCode
    /\ UNCHANGED <<argv, files, locked, web, dl, fetched, cursor>>
    /\ UNCHANGED libVars

\* readJsonFile: the parsed document, or exit 1 from the catch.
ReadableJson(filename) == filename \in DOMAIN files /\ Has(files[filename], "json")

MainReadPositions ==
    /\ pc = "positions"
    /\ IF ReadableJson(opts.positionsFile)
       THEN /\ positions' = files[opts.positionsFile].json
            /\ loaded' = files[opts.positionsFile].json
            /\ pc' = "roster" /\ UNCHANGED exitCode
       ELSE Exit(1) /\ UNCHANGED <<positions, loaded>>
    /\ UNCHANGED <<raceSetup, overlays, clock, gpx, called, threw, before, prevGpx,
                   prevCalled, runs>>
    /\ UNCHANGED <<argv, opts, files, locked, web, dl, fetched, cursor>>

MainReadRoster ==
    /\ pc = "roster"
    /\ IF ReadableJson(opts.raceSetupFile)
       THEN /\ raceSetup' = files[opts.raceSetupFile].json
            /\ pc' = "garmin" /\ UNCHANGED exitCode
       ELSE Exit(1) /\ UNCHANGED raceSetup
    /\ UNCHANGED <<loaded, positions, overlays, clock, gpx, called, threw, before,
                   prevGpx, prevCalled, runs>>
    /\ UNCHANGED <<argv, opts, files, locked, web, dl, fetched, cursor>>

\* if (args.garminUrl) is false
MainNoGarmin ==
    /\ pc = "garmin"
    /\ opts.garminUrl = <<>>
    /\ pc' = "overlays"
    /\ UNCHANGED <<argv, opts, files, locked, web, exitCode, dl, fetched, cursor>>
    /\ UNCHANGED libVars

\* downloadGarminGpx(args.garminUrl, 'garmin_overlay.gpx'): the URL goes to
\* downloadFile as it was typed.
MainDownloadGarmin ==
    /\ pc = "garmin"
    /\ opts.garminUrl # <<>>
    /\ CallDownloadFile(opts.garminUrl, <<"garmin_overlay.gpx">>)
    /\ pc' = "awaitGarmin"
    /\ UNCHANGED <<argv, opts, files, locked, web, exitCode, cursor>>
    /\ UNCHANGED libVars

\* readGpxFile: the tracks found in the file, or null (here: no entry made).
ReadableFile(filename) == filename \in DOMAIN files

gpxTextOf(filename) ==
    IF Has(files[filename], "gpx") THEN files[filename].gpx ELSE <<[k |-> "other"]>>

\* A plausible slip: a failed download ends the run, as it ends the downloader.
MainGarminDoneFatal ==
    /\ pc = "awaitGarmin"
    /\ dl.state \in {"resolved", "rejected"}
    /\ IF dl.state = "resolved" /\ ReadableFile(dl.path)
       THEN /\ overlays' = Append(overlays,
                                  [name |-> <<"Garmin Track">>, color |-> <<"FF0000">>,
                                   source |-> <<"Garmin">>,
                                   tracks |-> parseGpxTrack(gpxTextOf(dl.path), clock)])
            /\ pc' = "overlays" /\ UNCHANGED exitCode
       ELSE UNCHANGED overlays /\ Exit(1)
    /\ clock' = clock + 1
    /\ UNCHANGED <<loaded, positions, raceSetup, gpx, called, threw, before, prevGpx,
                   prevCalled, runs>>
    /\ UNCHANGED <<argv, opts, files, locked, web, dl, fetched, cursor>>

\* The promise settled: with a file, the Garmin group is pushed; a rejection
\* is caught and the group left out.
MainGarminDone ==
    /\ pc = "awaitGarmin"
    /\ dl.state \in {"resolved", "rejected"}
    /\ IF dl.state = "resolved" /\ ReadableFile(dl.path)
       THEN overlays' = Append(overlays,
                               [name |-> <<"Garmin Track">>, color |-> <<"FF0000">>,
                                source |-> <<"Garmin">>,
                                tracks |-> parseGpxTrack(gpxTextOf(dl.path), clock)])
       ELSE UNCHANGED overlays
    /\ clock' = clock + 1
    /\ pc' = "overlays"
    /\ UNCHANGED <<loaded, positions, raceSetup, gpx, called, threw, before, prevGpx,
                   prevCalled, runs>>
    /\ UNCHANGED <<argv, opts, files, locked, web, exitCode, dl, fetched, cursor>>

\* for (const overlay of args.overlays): one turn of the loop.
MainReadOverlay ==
    /\ pc = "overlays"
    /\ cursor <= Len(opts.overlays)
    /\ IF ReadableFile(opts.overlays[cursor].file)
       THEN overlays' = Append(overlays,
                               [name |-> opts.overlays[cursor].name,
                                color |-> opts.overlays[cursor].color,
                                source |-> opts.overlays[cursor].file,
                                tracks |-> parseGpxTrack(gpxTextOf(opts.overlays[cursor].file),
                                                         clock)])
       ELSE UNCHANGED overlays
    /\ clock' = clock + 1
    /\ cursor' = cursor + 1
    /\ UNCHANGED <<loaded, positions, raceSetup, gpx, called, threw, before, prevGpx,
                   prevCalled, runs>>
    /\ UNCHANGED <<argv, opts, files, locked, web, pc, exitCode, dl, fetched>>

\* The summary of main: totalPoints += boat.moments.length for every boat.
RECURSIVE totalPoints(_)
totalPoints(boats) ==
    IF boats = <<>> THEN 0
    ELSE Len(Head(boats).moments) + totalPoints(Tail(boats))

\* The exit codes of a process ended by an exception that main let escape:
\* main is async, so it is a promise rejection nobody handles, which ends the
\* process with code 1 or, on older runtimes, is only warned about (code 0).
EscapedFromAsyncMain == {0, 1}

\* generateGPXWithOverlays(positions, raceSetup, overlays), outside any try.
MainConvert ==
    /\ pc = "overlays"
    /\ cursor > Len(opts.overlays)
    /\ before' = positions
    /\ called' = "generateGPXWithOverlays"
    /\ LET k == firstThrow(positions)
       IN  IF k = 0
           THEN /\ positions' = sortedInPlace(positions)
                /\ IF overlayThrows(overlays)
                   THEN /\ gpx' = <<>> /\ threw' = TRUE
                        /\ \E code \in EscapedFromAsyncMain : Exit(code)
                   ELSE /\ gpx' = generateGPXWithOverlays(positions, raceSetup,
                                                          overlays, clock)
                        /\ threw' = FALSE
                        /\ pc' = "write" /\ UNCHANGED exitCode
           ELSE /\ \E left \in leftByThrow(positions[k]) :
                      positions' = stoppedAt(positions, k, left)
                /\ gpx' = <<>> /\ threw' = TRUE
                /\ \E code \in EscapedFromAsyncMain : Exit(code)
    /\ UNCHANGED <<loaded, raceSetup, overlays, clock, prevGpx, prevCalled, runs>>
    /\ UNCHANGED <<argv, opts, files, locked, web, dl, fetched, cursor>>

\* fs.writeFileSync(args.outputFile, gpxContent) in a try; the catch exits 1.
MainWrite ==
    /\ pc = "write"
    /\ IF opts.outputFile \in locked
       THEN Exit(1) /\ UNCHANGED files
       ELSE files' = (opts.outputFile :> [document |-> gpx]) @@ files /\ Exit(0)
    /\ UNCHANGED <<argv, opts, locked, web, dl, fetched, cursor>>
    /\ UNCHANGED libVars

MainNext ==
    \/ MainParseArgs \/ MainReadPositions \/ MainReadRoster
    \/ MainNoGarmin \/ MainDownloadGarmin \/ MainGarminDone
    \/ FollowRedirect \/ RedirectNowhere \/ RejectStatus \/ ReceiveFile
    \/ ReceiveStalled \/ FileError \/ RequestError \/ RequestTimeout \/ EarlierRequestTimeout
    \/ MainReadOverlay \/ MainConvert \/ MainWrite

(***************************************************************************)
(* The worlds a run of the overlay converter is explored in.               *)
(***************************************************************************)
PFile == <<"p.json">>

RFile == <<"r.json">>

OFile == <<"a.gpx">>

QFile == <<"b.gpx">>

OutFile == <<"out.gpx">>

Piece(kind) == [k |-> kind]

PointPieces(lat, lon, inside) ==
    <<[k |-> "trkpt", lat |-> lat, lon |-> lon]>> \o inside \o <<Piece("/trkpt")>>

TimePiece(text) == [k |-> "time", text |-> text]

TrackPieces(inside) == <<Piece("trk")>> \o inside \o <<Piece("/trk")>>

NamePiece(text) == [k |-> "name", text |-> text]

\* <trk><name>t</name><trkseg>two timed points, out of time order</trkseg></trk>
TextA ==
    TrackPieces(<<NamePiece(<<"t">>), Piece("trkseg")>>
                \o PointPieces("1", "0", <<TimePiece("1970-01-01T00:00:02.000Z")>>)
                \o PointPieces("0", "0", <<TimePiece("1970-01-01T00:00:01Z")>>)
                \o <<Piece("/trkseg")>>)

\* Two tracks, the second without a name.
TextB ==
    TrackPieces(<<NamePiece(<<"v">>)>>
                \o PointPieces("5", "7", <<TimePiece("1970-01-01T00:00:03+00:00")>>))
    \o TrackPieces(PointPieces("7", "5", <<TimePiece("1970-01-01T00:00:01Z")>>))

\* What the servers deliver.
TextG == TrackPieces(<<NamePiece(<<"w">>)>>
                     \o PointPieces("0", "1", <<TimePiece("1970-01-01T00:00:01Z")>>))

TimeTexts == {"1970-01-01T00:00:01Z", "1970-01-01T00:00:02.000Z",
              "1970-01-01T00:00:03+00:00", "yesterday", ""}

NumberTexts == {"0", "1", "5", "7", "north", ""}

\* Overlay documents: every time text, every coordinate text, and documents
\* the patterns match in part or not at all.
GpxTexts ==
    { TrackPieces(<<NamePiece(<<"t">>)>> \o PointPieces("1", "0", <<TimePiece(t)>>)) :
        t \in TimeTexts }
    \cup { TrackPieces(PointPieces(n, "0", <<>>)) : n \in NumberTexts }
    \cup { TrackPieces(PointPieces("0", n, <<TimePiece("1970-01-01T00:00:01Z")>>)) :
             n \in NumberTexts }
    \cup { TrackPieces(<<NamePiece(n)>> \o PointPieces("0", "0", <<>>)) : n \in Texts(1) }
    \cup { <<>>, <<Piece("other")>>, TextA, TextB,
           TrackPieces(<<>>),
           TrackPieces(<<NamePiece(<<"t">>), Piece("trkseg"), Piece("/trkseg")>>),
           TrackPieces(<<Piece("trkpt"), Piece("/trkpt")>>),
           TrackPieces(<<>>) \o TextA,
           TextA \o TrackPieces(<<NamePiece(<<"e">>)>>) \o TextG,
           <<Piece("trk"), NamePiece(<<"t">>)>> \o PointPieces("0", "0", <<>>),
           PointPieces("0", "0", <<>>),
           PointPieces("0", "0", <<>>) \o PointPieces("1", "1", <<>>) \o <<Piece("/trk")>>,
           TrackPieces(<<[k |-> "trkpt", lat |-> "0", lon |-> "0"]>>
                       \o PointPieces("1", "1", <<TimePiece("1970-01-01T00:00:01Z")>>)),
           TrackPieces(PointPieces("0", "0", <<TimePiece("yesterday")>>)
                       \o PointPieces("1", "1", <<TimePiece("1970-01-01T00:00:01Z")>>)),
           \* a named point (a GPX point may carry a name) in an unnamed track
           TrackPieces(<<Piece("trkseg")>> \o PointPieces("0", "0", <<NamePiece(<<"w">>)>>)
                       \o <<Piece("/trkseg")>>),
           TrackPieces(PointPieces("5", "7", <<>>)
                       \o PointPieces("1", "1", <<TimePiece("1970-01-01T00:00:01Z")>>)
                       \o PointPieces("0", "1", <<>>))
           \o TrackPieces(PointPieces("7", "5", <<>>)) }

PositionsA == <<[id |-> 1, moments |-> <<Mom(2, 0), Mom(1, 1)>>],
                [id |-> 2, moments |-> <<Mom(1, 0)>>]>>

FilesA ==
    (PFile :> [json |-> PositionsA]) @@ (RFile :> [json |-> RosterA])
    @@ (OFile :> [gpx |-> TextA]) @@ (QFile :> [gpx |-> TextB])

WebA == (ShareUrl :> [status |-> 200, body |-> TextG])

\* A file that is not there, or is there with another content.
Without(fs, path) == [f \in DOMAIN fs \ {path} |-> fs[f]]

With(fs, path, content) == (path :> content) @@ fs

CommandLines ==
    { <<>>, <<PFile>>, <<Flag("--list-overlays")>>, <<PFile, RFile>>,
      <<PFile, RFile, OutFile>>,
      <<PFile, RFile, Flag("--list-overlays")>>,
      <<PFile, RFile, Flag("--overlay")>>,
      <<Flag("--overlay"), OFile>>,
      <<PFile, RFile, Flag("--overlay"), OFile>>,
      <<PFile, RFile, Flag("--overlay"), OFile, Flag("--overlay"), QFile, OutFile>>,
      <<PFile, RFile, Flag("--overlay"), QFile, Flag("--overlay"), OFile>>,
      <<PFile, RFile, Flag("--overlay"), OFile, Flag("--overlay"), OFile>>,
      <<PFile, RFile, Flag("--overlay"), OFile, Flag("--overlay-name"), <<"g">>,
        Flag("--overlay-color"), <<"0">>, OutFile>>,
      <<PFile, RFile, Flag("--overlay-name"), <<"g">>, Flag("--overlay"), OFile>>,
      <<PFile, RFile, OutFile, Flag("--overlay"), OFile, QFile>>,
      <<PFile, RFile, Flag("--verbose"), Flag("--garmin-url")>>,
      <<PFile, RFile, Flag("--garmin-url"), ShareUrl>>,
      <<PFile, RFile, Flag("--garmin-url"), ShareUrl, Flag("--overlay"), OFile>>,
      <<PFile, RFile, Flag("--overlay"), OFile, Flag("--garmin-url"), ShareUrl,
        Flag("--overlay"), QFile>> }

\* What may follow the two positionals: an option with its value, or a path.
OptionItems ==
    { <<Flag("--overlay"), OFile>>, <<Flag("--overlay"), QFile>>,
      <<Flag("--overlay-name"), <<"g">>>>, <<Flag("--overlay-name"), <<"h">>>>,
      <<Flag("--overlay-color"), <<"0">>>>, <<OutFile>> }

MaxItems == 3

\* Every command line of up to MaxItems such items.
RECURSIVE ItemLines(_)
ItemLines(n) ==
    IF n = 0 THEN { <<>> }
    ELSE ItemLines(n - 1) \cup { line \o item : line \in ItemLines(n - 1), item \in OptionItems }

OptionLines == { <<PFile, RFile>> \o line : line \in ItemLines(MaxItems) }

FullLine == <<PFile, RFile, Flag("--garmin-url"), ShareUrl, Flag("--overlay"), OFile,
              Flag("--overlay"), QFile, OutFile>>

\* Position logs and rosters as files: missing, not JSON, or lacking fields.
BrokenFiles ==
    { Without(FilesA, f) : f \in {PFile, RFile, OFile, QFile} }
    \cup { With(FilesA, f, [garbage |-> TRUE]) : f \in {PFile, RFile, OFile, QFile} }
    \cup { Without(Without(FilesA, OFile), QFile), Without(Without(FilesA, PFile), RFile) }
    \cup { With(FilesA, PFile, [json |-> ps]) :
             ps \in { <<>>, <<[id |-> 1]>>, <<[id |-> 1, moments |-> <<[lat |-> 0, lon |-> 0]>>]>>,
                      <<UnsortedBoat, [id |-> 1]>> } }
    \cup { With(FilesA, RFile, [json |-> r]) : r \in SparseRosters }

\* Servers for the Garmin download.
GarminWebs ==
    { (ShareUrl :> a) : a \in Answers \cup {[status |-> 200, body |-> TextG]} }
    \cup { (ShareUrl :> [status |-> 302, location |-> OtherUrl, open |-> o]) @@ (OtherUrl :> a) :
             o \in BOOLEAN,
             a \in { [status |-> 200, body |-> TextG], [status |-> 200, body |-> <<>>],
                     [status |-> 404], [hang |-> TRUE],
                     [status |-> 302, location |-> ShareUrl, open |-> FALSE] } }
    \cup { (convertToGpxUrl(ActivityUrl) :> [status |-> 200, body |-> TextG])
             @@ (ActivityUrl :> a) :
             a \in { [status |-> 200, body |-> <<Piece("other")>>], [status |-> 404],
                     [status |-> 302, location |-> convertToGpxUrl(ActivityUrl),
                      open |-> FALSE] } }

GarminUrls == {ShareUrl, ActivityUrl, convertToGpxUrl(ActivityUrl)}

MainRuns ==
    { [argv |-> a, files |-> FilesA, locked |-> {}, web |-> WebA] :
        a \in CommandLines \cup OptionLines }
    \cup { [argv |-> FullLine, files |-> fs, locked |-> {}, web |-> WebA] : fs \in BrokenFiles }
    \cup { [argv |-> FullLine, files |-> FilesA, locked |-> l, web |-> WebA] :
             l \in { {OutFile}, {<<"garmin_overlay.gpx">>} } }
    \cup { [argv |-> <<PFile, RFile, Flag("--overlay"), OFile, Flag("--overlay"), QFile>>,
            files |-> With(FilesA, OFile, [gpx |-> t]), locked |-> {}, web |-> WebA] :
             t \in GpxTexts }
    \cup { [argv |-> <<PFile, RFile, Flag("--garmin-url"), u, Flag("--overlay"), OFile>>,
            files |-> FilesA, locked |-> {}, web |-> w] :
             u \in GarminUrls, w \in GarminWebs }

MainInit ==
    /\ NoLib
    /\ \E run \in MainRuns :
          argv = run.argv /\ files = run.files /\ locked = run.locked /\ web = run.web
    /\ opts = <<>>
    /\ pc = "start" /\ exitCode = 0
    /\ dl = NoDownload /\ fetched = {} /\ cursor = 1

MainSpec == MainInit /\ [][MainNext]_vars

(***************************************************************************)
(* Reading a document back: its track blocks, their names, descriptions    *)
(* and points.                                                             *)
(***************************************************************************)
Returned == called # "none" /\ ~threw

IndexAfter(g, from, tok) == CHOOSE j \in from..Len(g) :
                               g[j] = tok /\ \A k \in from..(j - 1) : g[k] # tok

Occurrences(g, tok) == { i \in 1..Len(g) : g[i] = tok }

NthOccurrence(g, tok, n) ==
    CHOOSE i \in Occurrences(g, tok) :
        Cardinality({ j \in Occurrences(g, tok) : j < i }) = n - 1

\* The n-th block of g that opens with `open` and ends at the next `close`.
Block(g, open, close, n) ==
    LET i == NthOccurrence(g, open, n)
    IN  SubSeq(g, i, IndexAfter(g, i, close))

BlockCount(g, open) == Cardinality(Occurrences(g, open))

\* What stands between the first `open` of b and the next `close`.
Content(b, open, close) ==
    LET i == IndexAfter(b, 1, open)
    IN  SubSeq(b, i + 1, IndexAfter(b, i, close) - 1)

HasElement(b, open) == Occurrences(b, open) # {}

TrackOf(g, n) == Block(g, "<trk>", "</trk>", n)

TrackCount(g) == BlockCount(g, "<trk>")

TrackName(t) == Content(t, "<name>", "</name>")

TrackDesc(t) == Content(t, "<desc>", "</desc>")

PointCount(t) == BlockCount(t, "<trkpt lat=\"")

PointOf(t, n) == Block(t, "<trkpt lat=\"", "</trkpt>", n)

PointSeq(t) == [n \in 1..PointCount(t) |-> PointOf(t, n)]

IsBoatTrack(t) == Len(TrackDesc(t)) > 0 /\ TrackDesc(t)[1] = "Boat ID: "

\* The point carries the moment's coordinates and time.
ShowsMoment(pt, m) ==
    /\ pt[2] = NumField(m, "lat")
    /\ pt[4] = NumField(m, "lon")
    /\ Content(pt, "<time>", "</time>") = <<timestampToISO(m.at)>>

(***************************************************************************)
(* C1.  Every returned document holds exactly one boat track per record of *)
(* the position log, and the i-th boat track is the i-th record's: it      *)
(* carries that record's id and as many points as the record has moments.  *)
(***************************************************************************)
C1_OneTrackPerRecord ==
    Returned =>
       /\ Cardinality({ n \in 1..TrackCount(gpx) : IsBoatTrack(TrackOf(gpx, n)) })
            = Len(before)
       /\ \A i \in 1..Len(before) :
             /\ IsBoatTrack(TrackOf(gpx, i))
             /\ TrackDesc(TrackOf(gpx, i))[2] = Num(before[i].id)
             /\ PointCount(TrackOf(gpx, i)) = Len(before[i].moments)

C1_Witness ==
    /\ Returned
    /\ Len(before) = 2
    /\ before[1].id = 2 /\ before[2].id = 1
    /\ Len(before[1].moments) = 2 /\ Len(before[2].moments) = 1
    /\ TrackCount(gpx) = 2

(***************************************************************************)
(* C2.  The points of a boat track are in non-decreasing order of `at`,    *)
(* and moments with equal `at` keep the order they had in the input: the   *)
(* k-th input moment is emitted at the place given by the number of        *)
(* moments that are earlier, or as early and before it in the input.       *)
(***************************************************************************)
Rank(ms, k) ==
    Cardinality({ j \in 1..Len(ms) :
                    ms[j].at < ms[k].at \/ (ms[j].at = ms[k].at /\ j <= k) })

C2_SortedStable ==
    Returned =>
       \A i \in 1..Len(before) :
          \A k \in 1..Len(before[i].moments) :
             ShowsMoment(PointOf(TrackOf(gpx, i), Rank(before[i].moments, k)),
                         before[i].moments[k])

C2_Witness ==
    /\ Returned
    /\ Len(before) = 1
    /\ before[1].moments = <<Mom(2, 1), Mom(1, 2), Mom(2, 3)>>
    /\ PointSeq(TrackOf(gpx, 1))
         = <<momentPoint(Mom(1, 2)), momentPoint(Mom(2, 1)), momentPoint(Mom(2, 3))>>

(***************************************************************************)
(* C3.  As claimed: when several records of the log share an id, the id is *)
(* represented by the data of the last such record, so every boat track    *)
(* shows the moments of the last record that carries its id.               *)
(***************************************************************************)
\* The points of t are exactly the moments ms, in some order.
ShowsMoments(t, ms) ==
    /\ PointCount(t) = Len(ms)
    /\ \A k \in 1..Len(ms) : \E n \in 1..PointCount(t) : ShowsMoment(PointOf(t, n), ms[k])
    /\ \A n \in 1..PointCount(t) : \E k \in 1..Len(ms) : ShowsMoment(PointOf(t, n), ms[k])

IsLastWithId(pos, j) == \A k \in (j + 1)..Len(pos) : pos[k].id # pos[j].id

C3_LastRecordWins ==
    Returned =>
       \A n \in 1..TrackCount(gpx) :
          IsBoatTrack(TrackOf(gpx, n)) =>
             \E j \in 1..Len(before) :
                /\ Num(before[j].id) = TrackDesc(TrackOf(gpx, n))[2]
                /\ IsLastWithId(before, j)
                /\ ShowsMoments(TrackOf(gpx, n), before[j].moments)

(***************************************************************************)
(* C3, amended.  Records that share an id do not replace one another: each *)
(* is emitted as a track of its own, at its own place in the order of the  *)
(* log, showing its own moments.                                           *)
(***************************************************************************)
C3_EachRecordOwnTrack ==
    Returned =>
       \A i, j \in 1..Len(before) :
          (i < j /\ before[i].id = before[j].id) =>
             /\ TrackCount(gpx) >= j
             /\ TrackDesc(TrackOf(gpx, i))[2] = Num(before[i].id)
             /\ TrackDesc(TrackOf(gpx, j))[2] = Num(before[j].id)
             /\ ShowsMoments(TrackOf(gpx, i), before[i].moments)
             /\ ShowsMoments(TrackOf(gpx, j), before[j].moments)

C3_Witness ==
    /\ Returned
    /\ Len(before) = 2
    /\ before[1].id = before[2].id
    /\ Len(before[1].moments) = 2 /\ Len(before[2].moments) = 1
    /\ PointCount(TrackOf(gpx, 1)) = 2 /\ PointCount(TrackOf(gpx, 2)) = 1

(***************************************************************************)
(* C4.  The extensions of the point emitted for a moment hold dtf always   *)
(* (the moment's dtf, 0 when it has none), ele / lap / pc exactly when the *)
(* moment carries alt / lap / pc, with the moment's value, and nothing     *)
(* else.                                                                   *)
(***************************************************************************)
ExtensionKeys == {<<"alt", "ele">>, <<"lap", "lap">>, <<"pc", "pc">>}

ShowsExtensions(pt, m) ==
    /\ Content(pt, "<dtf>", "</dtf>") = <<Num(IF Has(m, "dtf") THEN m.dtf ELSE 0)>>
    /\ \A kt \in ExtensionKeys :
          /\ HasElement(pt, "<" \o kt[2] \o ">") <=> Has(m, kt[1])
          /\ Has(m, kt[1]) =>
                Content(pt, "<" \o kt[2] \o ">", "</" \o kt[2] \o ">") = <<Num(m[kt[1]])>>
    /\ Len(Content(pt, "<extensions>", "</extensions>"))
         = 3 * (1 + Cardinality({ kt \in ExtensionKeys : Has(m, kt[1]) }))

C4_Extensions ==
    Returned =>
       \A i \in 1..Len(before) :
          \A k \in 1..Len(before[i].moments) :
             /\ TrackCount(gpx) >= i
             /\ PointCount(TrackOf(gpx, i)) >= Rank(before[i].moments, k)
             /\ ShowsExtensions(PointOf(TrackOf(gpx, i), Rank(before[i].moments, k)),
                                before[i].moments[k])

C4_Witness ==
    /\ Returned
    /\ Len(before) = 1 /\ Len(before[1].moments) = 1
    /\ DOMAIN before[1].moments[1] = {"lat", "lon", "at", "alt", "pc"}
    /\ before[1].moments[1].alt = 0
    /\ Content(PointOf(TrackOf(gpx, 1), 1), "<extensions>", "</extensions>")
         = <<"<dtf>", "0", "</dtf>", "<ele>", "0", "</ele>", "<pc>", "4", "</pc>">>

(***************************************************************************)
(* C5.  As claimed: no call of generateGPX or generateGPXWithOverlays ends *)
(* by an exception, whatever field the records lack.                       *)
(***************************************************************************)
C5_NeverThrows == ~threw

(***************************************************************************)
(* C6.  As claimed: the position log is read-only during conversion; when  *)
(* a call has returned every record, the order of its moments included, is *)
(* as it was when the call began.                                          *)
(***************************************************************************)
C6_LogUnchanged == Returned => positions = before

(***************************************************************************)
(* C7.  Two returns of the same converter on the same inputs, be it on a   *)
(* fresh parse or on the structures left in memory by the first call,      *)
(* give the same document up to the generation time of the metadata.       *)
(***************************************************************************)
MaskTime(g) == [g EXCEPT ![IndexAfter(g, 1, "<time>") + 1] = "(generation time)"]

C7_SameTwice ==
    (Returned /\ prevGpx # <<>> /\ called = prevCalled) =>
       MaskTime(gpx) = MaskTime(prevGpx)

C7_Witness ==
    /\ Returned /\ prevGpx # <<>> /\ called = prevCalled
    /\ gpx # prevGpx
    /\ before # loaded
    /\ loaded[1].moments = <<Mom(2, 1), Mom(1, 2), Mom(2, 3)>>

(***************************************************************************)
(* C8.  As claimed: every text inserted into the document is escaped, so   *)
(* the document holds no raw reserved character outside its markup: no     *)
(* piece is a bare < > " or ', and every & begins an entity.               *)
(***************************************************************************)
EntityTails == {"amp;", "lt;", "gt;", "quot;", "apos;"}

NoRawReserved(g) ==
    \A i \in 1..Len(g) :
       /\ g[i] \notin {"<", ">", "\"", "'"}
       /\ g[i] = "&" => (i < Len(g) /\ g[i + 1] \in EntityTails)

C8_AllTextEscaped == Returned => NoRawReserved(gpx)

(***************************************************************************)
(* C9.  The track name of a boat whose team has a name is that name with   *)
(* each reserved character replaced by its entity, character by character  *)
(* (so every & of the input is escaped exactly once and the & of an entity *)
(* is not escaped again), followed by the owner in brackets.               *)
(***************************************************************************)
EntityOf(c) ==
    CASE c = "&"  -> <<"&", "amp;">>
      [] c = "<"  -> <<"&", "lt;">>
      [] c = ">"  -> <<"&", "gt;">>
      [] c = "\"" -> <<"&", "quot;">>
      [] c = "'"  -> <<"&", "apos;">>
      [] OTHER    -> <<c>>

CharByChar(text) == Flatten([i \in 1..Len(text) |-> EntityOf(text[i])])

TeamsWithId(setup, id) ==
    IF Has(setup, "teams")
    THEN { n \in 1..Len(setup.teams) : setup.teams[n].id = id }
    ELSE {}

LastTeamWithId(setup, id) ==
    setup.teams[CHOOSE n \in TeamsWithId(setup, id) :
                    \A k \in TeamsWithId(setup, id) : k <= n]

C9_NameEscapedOnce ==
    Returned =>
       \A i \in 1..Len(before) :
          TeamsWithId(raceSetup, before[i].id) # {} =>
             LET team == LastTeamWithId(raceSetup, before[i].id)
             IN  (Has(team, "name") /\ team.name # <<>>) =>
                    TrackName(TrackOf(gpx, i))
                      = CharByChar(team.name) \o <<" (">>
                        \o CharByChar(OrText(team, "owner", <<"Unknown">>)) \o <<")">>

C9_Witness ==
    /\ Returned
    /\ Len(before) = 1 /\ before[1].id = 1
    /\ Has(raceSetup, "teams") /\ Len(raceSetup.teams) = 1
    /\ Has(raceSetup.teams[1], "name")
    /\ raceSetup.teams[1].name = <<"&", "<">>
    /\ TrackName(TrackOf(gpx, 1)) = <<"&", "amp;", "&", "lt;", " (", "o", ")">>

(***************************************************************************)
(* C10.  A record whose id matches no team (the roster may have no teams   *)
(* array at all) gets the track name `Boat {id} (Unknown)` and the         *)
(* description `Boat ID: {id}, Owner: Unknown, Model: Unknown, Country:    *)
(* Unknown`, with no sail part.                                            *)
(***************************************************************************)
C10_UnknownBoat ==
    Returned =>
       \A i \in 1..Len(before) :
          TeamsWithId(raceSetup, before[i].id) = {} =>
             /\ TrackName(TrackOf(gpx, i))
                  = <<"Boat ", Num(before[i].id), " (", "Unknown", ")">>
             /\ TrackDesc(TrackOf(gpx, i))
                  = <<"Boat ID: ", Num(before[i].id), ", Owner: ", "Unknown",
                      ", Model: ", "Unknown", ", Country: ", "Unknown">>

C10_Witness ==
    /\ Returned
    /\ ~Has(raceSetup, "teams")
    /\ Len(before) = 1 /\ before[1].id = 2
    /\ TrackName(TrackOf(gpx, 1)) = <<"Boat ", "2", " (", "Unknown", ")">>

(***************************************************************************)
(* C11.  A record whose id matches a team gets the track name              *)
(* `{name} ({owner})` and the description `Boat ID: {id}, Owner: {owner},  *)
(* Model: {model}, Country: {country}`, followed by `, Sail: {sail}` only  *)
(* when the team has a non-empty sail number; a name, owner, model or      *)
(* country that is absent or empty is replaced by `Boat {id}` (name) or    *)
(* `Unknown` (the others).  The texts appear in their escaped form.        *)
(***************************************************************************)
NameFor(team, id) ==
    CharByChar(OrText(team, "name", <<"Boat ", Num(id)>>)) \o <<" (">>
    \o CharByChar(OrText(team, "owner", <<"Unknown">>)) \o <<")">>

DescFor(team, id) ==
    <<"Boat ID: ", Num(id), ", Owner: ">>
    \o CharByChar(OrText(team, "owner", <<"Unknown">>))
    \o <<", Model: ">> \o CharByChar(OrText(team, "model", <<"Unknown">>))
    \o <<", Country: ">> \o CharByChar(OrText(team, "country", <<"Unknown">>))
    \o (IF Has(team, "sail") /\ team.sail # <<>>
        THEN <<", Sail: ">> \o CharByChar(team.sail) ELSE <<>>)

TeamTexts(team) ==
    { team[k] : k \in DOMAIN team \cap {"name", "owner", "model", "country", "sail"} }

TextAtoms(texts) == UNION { { t[n] : n \in 1..Len(t) } : t \in texts }

AtomsOf(g) == { g[n] : n \in 1..Len(g) }

C20_LastTeamWins ==
    Returned =>
       \A i \in 1..Len(before) :
          Cardinality(TeamsWithId(raceSetup, before[i].id)) >= 2 =>
             LET same == TeamsWithId(raceSetup, before[i].id)
                 last == LastTeamWithId(raceSetup, before[i].id)
                 earlier == UNION { TeamTexts(raceSetup.teams[n]) :
                                      n \in { k \in same : raceSetup.teams[k] # last } }
             IN  /\ TrackCount(gpx) >= i
                 /\ TrackName(TrackOf(gpx, i)) = NameFor(last, before[i].id)
                 /\ TrackDesc(TrackOf(gpx, i)) = DescFor(last, before[i].id)
                 /\ AtomsOf(TrackOf(gpx, i))
                      \cap (TextAtoms(earlier) \ TextAtoms(TeamTexts(last))) = {}

C20_Witness ==
    /\ Returned
    /\ Len(before) = 2 /\ before[1].id = 1 /\ before[2].id = 1
    /\ raceSetup = [teams |-> <<TeamOld, TeamA>>]
    /\ TrackName(TrackOf(gpx, 2)) = <<"n", " (", "o", ")">>
    /\ TrackDesc(TrackOf(gpx, 1))
         = <<"Boat ID: ", "1", ", Owner: ", "o", ", Model: ", "m", ", Country: ", "c",
             ", Sail: ", "s">>

(***************************************************************************)
(* C13.  For every overlay group and every track of it the overlay         *)
(* converter emits one track, after the boat tracks, named                 *)
(* `{group name} - {track name}` (escaped), whose points are the track's   *)
(* points in the order given, not sorted by time, each with exactly the    *)
(* extensions `overlay` = true and `color` = the group's color, and no     *)
(* `dtf` element.                                                          *)
(***************************************************************************)
\* The overlay tracks of a list of groups, in group order then track order.
OverlayTrackList(ovs) ==
    Flatten([g \in 1..Len(ovs) |->
               IF Has(ovs[g], "tracks")
               THEN [t \in 1..Len(ovs[g].tracks) |->
                        [group |-> ovs[g], track |-> ovs[g].tracks[t]]]
               ELSE <<>>])

WellFormed(gt) ==
    /\ Has(gt.group, "name") /\ Has(gt.group, "color")
    /\ Has(gt.track, "name") /\ Has(gt.track, "points")

ShowsOverlayPoint(pt, point, color) ==
    /\ ShowsMoment(pt, point)
    /\ Content(pt, "<extensions>", "</extensions>")
         = <<"<overlay>", "true", "</overlay>", "<color>">> \o color \o <<"</color>">>
    /\ ~HasElement(pt, "<dtf>")

C13_OverlayTrack ==
    (Returned /\ called = "generateGPXWithOverlays") =>
       \A n \in 1..Len(OverlayTrackList(overlays)) :
          LET gt == OverlayTrackList(overlays)[n]
              j == Len(before) + n
          IN  WellFormed(gt) =>
                 /\ TrackCount(gpx) >= j
                 /\ TrackName(TrackOf(gpx, j))
                      = CharByChar(gt.group.name) \o <<" - ">> \o CharByChar(gt.track.name)
                 /\ PointCount(TrackOf(gpx, j)) = Len(gt.track.points)
                 /\ \A k \in 1..Len(gt.track.points) :
                       ShowsOverlayPoint(PointOf(TrackOf(gpx, j), k), gt.track.points[k],
                                         gt.group.color)

C13_Witness ==
    /\ Returned /\ called = "generateGPXWithOverlays"
    /\ Len(before) = 1
    /\ overlays = <<[GroupA EXCEPT !.tracks =
                       <<[TrackA EXCEPT !.points = <<[lat |-> 1, lon |-> 0, at |-> 2], PointA>>]>>]>>
    /\ TrackName(TrackOf(gpx, 2)) = <<"g", " - ", "t">>
    /\ PointOf(TrackOf(gpx, 2), 1)[2] = "1"
    /\ Content(PointOf(TrackOf(gpx, 2), 2), "<extensions>", "</extensions>")
         = <<"<overlay>", "true", "</overlay>", "<color>", "F", "</color>">>

(***************************************************************************)
(* C12.  In the document of a run of the overlay converter all boat tracks *)
(* come first, then the overlay tracks group by group in the order the     *)
(* groups were supplied (the Garmin download first if it was made, then    *)
(* the --overlay files in command-line order), the tracks of a group in    *)
(* the order they were extracted; there are N + M track blocks, N the      *)
(* number of records and M the number of overlay tracks of all groups.     *)
(***************************************************************************)
\* The conversion of the run returned and its document is about to be written.
Converted == pc = "write"

\* The values that follow a --overlay flag on the command line, in order.
OverlayFilesTyped ==
    LET places == { i \in 3..(Len(argv) - 1) :
                      /\ argv[i] = Flag("--overlay")
                      /\ argv[i - 1] \notin {Flag("--overlay"), Flag("--garmin-url")} }
        nth(n) == CHOOSE i \in places : Cardinality({ j \in places : j < i }) = n - 1
    IN  [n \in 1..Cardinality(places) |-> argv[nth(n) + 1]]

GarminAcquired == dl.state = "resolved"

IsThere(path) == path \in DOMAIN files

\* The sources in the order the claim gives.
SuppliedSources ==
    (IF GarminAcquired THEN << <<"Garmin">> >> ELSE <<>>)
    \o SelectSeq(OverlayFilesTyped, IsThere)

C12_TrackOrder ==
    Converted =>
       LET list == OverlayTrackList(overlays)
       IN  /\ [g \in 1..Len(overlays) |-> overlays[g].source] = SuppliedSources
           /\ TrackCount(gpx) = Len(before) + Len(list)
           /\ \A i \in 1..Len(before) : IsBoatTrack(TrackOf(gpx, i))
           /\ \A n \in 1..Len(list) :
                 /\ ~IsBoatTrack(TrackOf(gpx, Len(before) + n))
                 /\ TrackName(TrackOf(gpx, Len(before) + n))
                      = CharByChar(list[n].group.name) \o <<" - ">>
                        \o CharByChar(list[n].track.name)
                 /\ TrackDesc(TrackOf(gpx, Len(before) + n))
                      = <<"Overlay track from ">> \o list[n].group.source

C12_Witness ==
    /\ Converted
    /\ argv = <<PFile, RFile, Flag("--overlay"), OFile, Flag("--garmin-url"), ShareUrl,
                Flag("--overlay"), QFile>>
    /\ TrackCount(gpx) = 6
    /\ [n \in 3..6 |-> TrackName(TrackOf(gpx, n))]
         = [n \in 3..6 |->
              CASE n = 3 -> <<"Garmin Track", " - ", "w">>
                [] n = 4 -> <<"Overlay Track", " - ", "t">>
                [] n = 5 -> <<"Overlay Track", " - ", "v">>
                [] n = 6 -> <<"Overlay Track", " - ", "Unknown Track">>]

TracksOfGroups == Len(OverlayTrackList(overlays))

GroupsWithoutTracks == { g \in 1..Len(overlays) : overlays[g].tracks = <<>> }

Exited == pc = "exited"

Wrote == IsThere(opts.outputFile) /\ Has(files[opts.outputFile], "document")

C15_NoEmptyTrack ==
    /\ \A g \in 1..Len(overlays) :
          \A t \in 1..Len(overlays[g].tracks) : overlays[g].tracks[t].points # <<>>
    /\ (Converted /\ GroupsWithoutTracks # {}) =>
          TrackCount(gpx) = Len(before) + TracksOfGroups
    /\ (Exited /\ GroupsWithoutTracks # {}) =>
          \/ called = "generateGPXWithOverlays" /\ threw
          \/ opts.outputFile \in locked /\ exitCode = 1
          \/ exitCode = 0 /\ Wrote

C15_Witness ==
    /\ Exited /\ exitCode = 0
    /\ Len(overlays) = 2
    /\ overlays[1].tracks = <<>>
    /\ IsThere(OFile) /\ files[OFile] = [gpx |-> TrackPieces(<<Piece("trkpt"), Piece("/trkpt")>>)]
    /\ Wrote
    /\ TrackCount(files[opts.outputFile].document) = Len(before) + 2

(***************************************************************************)
(* C16.  A failed overlay acquisition does not end the run: when the       *)
(* Garmin download rejects, or an --overlay file cannot be read, no group  *)
(* is entered for that overlay, the loop goes on with the remaining        *)
(* overlays, and the run (unless it ends for another reason: the           *)
(* conversion throws or the destination cannot be written) writes the      *)
(* document of the boats and the remaining overlays and exits 0.           *)
(***************************************************************************)
GarminFailed == dl.state = "rejected"

\* The --overlay files the loop has come to and could not read.
FilesFailed ==
    { n \in 1..Len(OverlayFilesTyped) : n < cursor /\ ~IsThere(OverlayFilesTyped[n]) }

AcquisitionFailed == GarminFailed \/ FilesFailed # {}

SourcesOfGroups == { overlays[g].source : g \in 1..Len(overlays) }

C16_FailedOverlaySkipped ==
    /\ GarminFailed => <<"Garmin">> \notin SourcesOfGroups
    /\ \A n \in FilesFailed : OverlayFilesTyped[n] \notin SourcesOfGroups
    /\ (AcquisitionFailed /\ Exited) => called = "generateGPXWithOverlays"
    /\ (AcquisitionFailed /\ Converted) =>
          /\ [g \in 1..Len(overlays) |-> overlays[g].source] = SuppliedSources
          /\ gpx = generateGPXWithOverlays(before, raceSetup, overlays, clock)
    /\ (AcquisitionFailed /\ Exited /\ called = "generateGPXWithOverlays" /\ ~threw
          /\ opts.outputFile \notin locked) =>
          /\ exitCode = 0
          /\ Wrote /\ files[opts.outputFile].document = gpx
          /\ TrackCount(gpx) = Len(before) + TracksOfGroups

C16_Witness ==
    /\ Exited /\ exitCode = 0
    /\ GarminFailed
    /\ argv = <<PFile, RFile, Flag("--garmin-url"), ShareUrl, Flag("--overlay"), OFile>>
    /\ Len(overlays) = 1 /\ overlays[1].source = OFile
    /\ Wrote /\ TrackCount(files[opts.outputFile].document) = 3

(***************************************************************************)
(* C17.  As claimed: a run ends with exit code 1 exactly when fewer than   *)
(* two arguments were given, the position log or the roster cannot be read *)
(* or parsed, or the destination cannot be written, and with exit code 0   *)
(* and the document written otherwise; after an unreadable input no        *)
(* conversion is run and nothing is written.  (The --list-overlays mode,   *)
(* which converts nothing, is left aside.)                                 *)
(***************************************************************************)
ListMode == \E i \in 1..Len(argv) : argv[i] = Flag("--list-overlays")

TooFewArguments == Len(argv) < 2

InputUnreadable ==
    /\ ~TooFewArguments
    /\ ~ReadableJson(argv[1]) \/ ~ReadableJson(argv[2])

DestinationUnwritable ==
    /\ ~TooFewArguments /\ ~InputUnreadable
    /\ opts # <<>> /\ opts.outputFile \in locked

NothingWritten == \A f \in DOMAIN files : ~Has(files[f], "document")

C17_ExitCodes ==
    (Exited /\ ~ListMode) =>
       /\ (TooFewArguments \/ InputUnreadable) =>
             exitCode = 1 /\ called = "none" /\ NothingWritten
       /\ DestinationUnwritable => exitCode = 1
       /\ ~(TooFewArguments \/ InputUnreadable \/ DestinationUnwritable) =>
             exitCode = 0 /\ Wrote

(***************************************************************************)
(* C19.  As claimed: the first request of the download made for            *)
(* --garmin-url goes to convertToGpxUrl of the URL that was typed, so for  *)
(* an activity URL to the direct download link.                            *)
(***************************************************************************)
C19_GarminUrlConverted ==
    (pc # "start" /\ dl.state # "idle") => dl.first = convertToGpxUrl(opts.garminUrl)

(***************************************************************************)
(* C18.  As claimed: every call of downloadFile eventually settles,        *)
(* whatever the servers answer; a chain of redirects cannot keep it        *)
(* pending forever.                                                        *)
(***************************************************************************)
C18_EverySettles == (dl.state = "pending") ~> (dl.state \in {"resolved", "rejected"})

(***************************************************************************)
(* C21.  As claimed: when an overlay file is read, a track block without a *)
(* name element at track level (outside every point) is given the name     *)
(* `Unknown Track`; a point without a time element is given the wall-clock *)
(* time of the extraction, a point with one that element's time in epoch   *)
(* seconds; lat and lon are the numbers its attributes spell.  Stated for  *)
(* documents of one track block whose points are closed one by one.        *)
(***************************************************************************)
OneBlock(text) ==
    /\ Len(text) >= 2
    /\ text[1].k = "trk" /\ text[Len(text)].k = "/trk"
    /\ \A i \in 2..(Len(text) - 1) : text[i].k \notin {"trk", "/trk"}

\* The points of a block: an opening with both attributes, its closing, and
\* no other point tag between them.
PointSpans(text) ==
    { s \in (1..Len(text)) \X (1..Len(text)) :
        /\ s[1] < s[2]
        /\ OpensPoint(text[s[1]]) /\ text[s[2]].k = "/trkpt"
        /\ \A i \in (s[1] + 1)..(s[2] - 1) : text[i].k \notin {"trkpt", "/trkpt"} }

PointsClosedOneByOne(text) ==
    \A i \in 1..Len(text) :
       text[i].k \in {"trkpt", "/trkpt"} =>
          \E s \in PointSpans(text) : i \in {s[1], s[2]}

NthSpan(text, n) ==
    CHOOSE s \in PointSpans(text) :
       Cardinality({ r \in PointSpans(text) : r[1] < s[1] }) = n - 1

InsidePoint(text, i) == \E s \in PointSpans(text) : s[1] < i /\ i < s[2]

TrackLevelNames(text) == { i \in 1..Len(text) : text[i].k = "name" /\ ~InsidePoint(text, i) }

TimesOfSpan(text, s) == { i \in (s[1] + 1)..(s[2] - 1) : text[i].k = "time" }

\* The file the overlay loop is about to read.
FileInTurn == opts.overlays[cursor].file

ReadsOneBlock ==
    /\ pc = "overlays" /\ cursor <= Len(opts.overlays)
    /\ IsThere(FileInTurn) /\ Has(files[FileInTurn], "gpx")
    /\ OneBlock(files[FileInTurn].gpx)
    /\ PointsClosedOneByOne(files[FileInTurn].gpx)
    /\ PointSpans(files[FileInTurn].gpx) # {}

ExtractedAsClaimed(group, text, now) ==
    /\ Len(group.tracks) = 1
    /\ TrackLevelNames(text) = {} => group.tracks[1].name = <<"Unknown Track">>
    /\ Len(group.tracks[1].points) = Cardinality(PointSpans(text))
    /\ \A n \in 1..Cardinality(PointSpans(text)) :
          LET s == NthSpan(text, n)
              point == group.tracks[1].points[n]
          IN  /\ parseFloat(text[s[1]].lat) # NaN => point.lat = parseFloat(text[s[1]].lat)
              /\ parseFloat(text[s[1]].lon) # NaN => point.lon = parseFloat(text[s[1]].lon)
              /\ TimesOfSpan(text, s) = {} => point.at = now
              /\ \A i \in TimesOfSpan(text, s) :
                    (\A j \in TimesOfSpan(text, s) : i <= j) /\ DateSeconds(text[i].text) # NaN
                       => point.at = DateSeconds(text[i].text)

C21_ExtractionDefaults ==
    [][(ReadsOneBlock /\ cursor' = cursor + 1) =>
          /\ Len(overlays') = Len(overlays) + 1
          /\ ExtractedAsClaimed(overlays'[Len(overlays')], files[FileInTurn].gpx, clock)]_vars

(***************************************************************************)
(* C22.  downloadFile resolves only when an answer with status 200 has     *)
(* been written whole to the output path; a final status other than 200    *)
(* and 3xx rejects with `HTTP {status}: {message}` and leaves no output    *)
(* file; a transport error rejects with that error; a request silent for   *)
(* 30 seconds rejects with `Request timeout`, one that is answered sooner  *)
(* does not; and a rejected download never becomes a resolved one.         *)
(***************************************************************************)
FinalAnswer == Answer(dl.url)

Resolved == dl.state = "resolved"

Rejected == dl.state = "rejected"

TimedOut == Rejected /\ dl.error = <<"Request timeout">>

\* Milliseconds for which the request in flight hears nothing.
Silence ==
    IF dl.url \notin DOMAIN web THEN 0
    ELSE IF Has(web[dl.url], "hang") \/ Has(web[dl.url], "stall") THEN requestTimeout
    ELSE IF Has(web[dl.url], "after") THEN web[dl.url].after
    ELSE 0

\* The timer of an earlier request of the chain is still armed.
EarlierTimerArmed == dl.idle

OtherStatus ==
    /\ Has(FinalAnswer, "status")
    /\ FinalAnswer.status # 200
    /\ ~(FinalAnswer.status >= 300 /\ FinalAnswer.status < 400)

OutcomeAsClaimed ==
    /\ Resolved =>
          /\ Has(FinalAnswer, "status") /\ FinalAnswer.status = 200
          /\ IsThere(dl.path) /\ files[dl.path] = [gpx |-> FinalAnswer.body]
    /\ (Rejected /\ OtherStatus) =>
          /\ ~IsThere(dl.path)
          /\ \/ dl.error = <<"HTTP ", ToString(FinalAnswer.status), ": ">>
                            \o <<IF Has(web[dl.url], "message")
                                 THEN web[dl.url].message ELSE "">>
             \/ TimedOut /\ EarlierTimerArmed
    /\ (Rejected /\ Has(FinalAnswer, "error")) =>
          \/ dl.error = <<FinalAnswer.error>>
          \/ TimedOut /\ EarlierTimerArmed
    /\ TimedOut => (Silence >= requestTimeout \/ EarlierTimerArmed)
    /\ ((Resolved \/ Rejected) /\ Silence >= requestTimeout) => TimedOut

C22_DownloadOutcomes ==
    /\ []OutcomeAsClaimed
    /\ [][Rejected => dl'.state = "rejected" /\ dl'.error = dl.error]_vars

C22_Witness ==
    /\ pc = "exited" /\ exitCode = 1
    /\ Rejected /\ OtherStatus
    /\ dl.error = <<"HTTP ", "404", ": ", "Not Found">>
    /\ ~IsThere(dl.path)

(***************************************************************************)
(* C23.  After parseArgs of the overlay converter the overlay list holds   *)
(* one entry per `--overlay <file>` in command-line order; the name and    *)
(* the color of an entry are the value of the last --overlay-name /        *)
(* --overlay-color between its --overlay and the next one, or the defaults *)
(* `Overlay Track` / `FF0000`; no such flag changes another entry.  Stated *)
(* for command lines on which every option flag is followed by a value.    *)
(***************************************************************************)
ValueFlags == {Flag("--overlay"), Flag("--overlay-name"), Flag("--overlay-color"),
               Flag("--garmin-url")}

IsFlag(arg) == arg # <<>> /\ arg[1] \in {"--overlay", "--overlay-name", "--overlay-color",
                                         "--garmin-url", "--list-overlays", "--verbose"}

EveryFlagHasItsValue ==
    \A i \in 3..Len(argv) :
       argv[i] \in ValueFlags => (i < Len(argv) /\ ~IsFlag(argv[i + 1]))

Parsed == pc # "start" /\ opts # <<>>

OverlayPlaces == { i \in 3..Len(argv) : argv[i] = Flag("--overlay") }

NthOverlayPlace(n) ==
    CHOOSE i \in OverlayPlaces : Cardinality({ j \in OverlayPlaces : j < i }) = n - 1

\* Where the stretch of the n-th --overlay ends: before the next one.
StretchEnd(n) ==
    IF n < Cardinality(OverlayPlaces) THEN NthOverlayPlace(n + 1) - 1 ELSE Len(argv)

\* The value of the last `flag` in the stretch of the n-th --overlay.
LastValueIn(n, flag, default) ==
    LET at == { i \in (NthOverlayPlace(n) + 2)..StretchEnd(n) : argv[i] = flag }
    IN  IF at = {} THEN default
        ELSE argv[(CHOOSE i \in at : \A j \in at : j <= i) + 1]

OverlaysAsTyped ==
    [n \in 1..Cardinality(OverlayPlaces) |->
        [file  |-> argv[NthOverlayPlace(n) + 1],
         name  |-> LastValueIn(n, Flag("--overlay-name"), <<"Overlay Track">>),
         color |-> LastValueIn(n, Flag("--overlay-color"), <<"FF0000">>)]]

C23_OverlayList ==
    (Parsed /\ EveryFlagHasItsValue) => opts.overlays = OverlaysAsTyped

C23_Witness ==
    /\ Parsed
    /\ argv = <<PFile, RFile, Flag("--overlay"), OFile, Flag("--overlay-name"), <<"g">>,
                Flag("--overlay"), QFile>>
    /\ opts.overlays = <<[file |-> OFile, name |-> <<"g">>, color |-> <<"FF0000">>],
                         [file |-> QFile, name |-> <<"Overlay Track">>,
                          color |-> <<"FF0000">>]>>

(***************************************************************************)
(* C24.  As claimed: the value that follows an option flag is never taken  *)
(* as the output path.  The output path parseArgs returns is the first     *)
(* argument after the two positionals that is neither a flag nor the value *)
(* of --overlay, --overlay-name, --overlay-color or --garmin-url, or the   *)
(* default `race_tracks_with_overlay.gpx`; also when a name or color flag  *)
(* comes before any --overlay.                                             *)
(***************************************************************************)
PathPlaces ==
    { i \in 3..Len(argv) : ~IsFlag(argv[i]) /\ argv[i - 1] \notin ValueFlags }

OutputAsTyped ==
    IF PathPlaces = {} THEN <<"race_tracks_with_overlay.gpx">>
    ELSE argv[CHOOSE i \in PathPlaces : \A j \in PathPlaces : i <= j]

C24_OutputPath ==
    (Parsed /\ EveryFlagHasItsValue) => opts.outputFile = OutputAsTyped

(***************************************************************************)
(* C25.  In every returned document the points of a boat's track are the   *)
(* moments of its record, each once: as many points as the record has      *)
(* moments, every rendering of a moment as often among the points as among *)
(* the moments, and the points of all boat tracks together as many as the  *)
(* `Total track points` figure main computes from the log after the call.  *)
(***************************************************************************)
RECURSIVE SumOver(_, _)
SumOver(count, n) == IF n = 0 THEN 0 ELSE count[n] + SumOver(count, n - 1)

BoatPointCounts == [i \in 1..Len(before) |-> PointCount(TrackOf(gpx, i))]

SameMultiset(points, moments) ==
    /\ Len(points) = Len(moments)
    /\ \A m \in 1..Len(moments) :
          Cardinality({ k \in 1..Len(points) : points[k] = momentPoint(moments[m]) })
            = Cardinality({ k \in 1..Len(moments) :
                              momentPoint(moments[k]) = momentPoint(moments[m]) })

C25_PointMultiset ==
    Returned =>
       /\ TrackCount(gpx) >= Len(before)
       /\ \A i \in 1..Len(before) :
             /\ PointCount(TrackOf(gpx, i)) = Len(before[i].moments)
             /\ SameMultiset(PointSeq(TrackOf(gpx, i)), before[i].moments)
       /\ totalPoints(positions) = SumOver(BoatPointCounts, Len(before))

C25_Witness ==
    /\ Returned
    /\ Len(before) = 1 /\ Len(before[1].moments) = 3
    /\ \E m, n \in 1..3 : m < n /\ before[1].moments[m].at = before[1].moments[n].at
    /\ before[1].moments # positions[1].moments
    /\ PointCount(TrackOf(gpx, 1)) = 3
    /\ totalPoints(positions) = 3

(***************************************************************************)
(* C26.  The two converters agree on boat data: called on the same         *)
(* position log and roster, generateGPXWithOverlays with no overlay group  *)
(* and generateGPX return the same document but for the generation time    *)
(* and the description text of the metadata; with overlay groups the       *)
(* document is still the same up to the first overlay track block.         *)
(***************************************************************************)
\* Both converters were called, one after the other, and both returned.
BothReturned ==
    /\ Returned /\ prevGpx # <<>>
    /\ {called, prevCalled} = {"generateGPX", "generateGPXWithOverlays"}

BasicDocument == IF called = "generateGPX" THEN gpx ELSE prevGpx

OverlayDocument == IF called = "generateGPXWithOverlays" THEN gpx ELSE prevGpx

\* The document with the metadata's time and description blanked.
Masked(g) ==
    [i \in 1..Len(g) |->
        IF i > 1 /\ i < IndexAfter(g, 1, "</metadata>") /\ g[i - 1] \in {"<time>", "<desc>"}
        THEN "*" ELSE g[i]]

\* Where the first overlay track block opens, or the document is closed.
BoatPartEnd(g) ==
    IF TrackCount(g) > Len(before) THEN NthOccurrence(g, "<trk>", Len(before) + 1) - 1
    ELSE Len(g) - 1

Redirected == dl.state # "idle" /\ (dl.url # dl.first \/ dl.request = 1)

\* The error with which the download of the last target ends, if it fails.
ErrorOfTarget ==
    IF Has(FinalAnswer, "hang") \/ Has(FinalAnswer, "stall") THEN <<"Request timeout">>
    ELSE IF Has(FinalAnswer, "error") THEN <<FinalAnswer.error>>
    ELSE IF OtherStatus
    THEN <<"HTTP ", ToString(FinalAnswer.status), ": ", statusMessage(FinalAnswer)>>
    ELSE IF FinalAnswer.status = 200 THEN <<"EACCES">>
    ELSE <<"ERR_INVALID_ARG_TYPE">>

C27_RedirectOutcome ==
    /\ (Redirected /\ Resolved) =>
          /\ Has(FinalAnswer, "status") /\ FinalAnswer.status = 200
          /\ IsThere(dl.path) /\ files[dl.path] = [gpx |-> FinalAnswer.body]
    /\ (Redirected /\ Rejected) => dl.error = ErrorOfTarget

(***************************************************************************)
(* C28.  convertToGpxUrl maps every URL containing `activity/<digits>` to  *)
(* the direct link .../proxy/activity-service-1.1/json/activity/<digits>/  *)
(* details of the first such digit run and returns every other URL         *)
(* unchanged; converting its result again changes nothing; and the basic   *)
(* and the enhanced downloader convert every URL to the same result.       *)
(***************************************************************************)
\* The URL the downloader was given and the URL it first requested.
TypedUrl == opts.garminUrl

RequestedUrl == dl.first

DownloadStarted == pc \in {"await", "exited"} /\ dl.state # "idle"

DigitRunPlaces(u) ==
    { i \in 2..Len(u) : EndsWithActivity(u[i - 1]) /\ LeadingDigits(u[i]) # <<>> }

DirectLink(digits) ==
    <<"https:", "connect.garmin.com", "modern", "proxy", "activity-service-1.1",
      "json", "activity">> \o digits \o <<"details">>

AsClaimedOf(u) ==
    IF DigitRunPlaces(u) = {} THEN u
    ELSE DirectLink(LeadingDigits(u[CHOOSE i \in DigitRunPlaces(u) :
                                        \A j \in DigitRunPlaces(u) : i <= j]))

C28_ConvertToGpxUrl ==
    DownloadStarted =>
       /\ RequestedUrl = AsClaimedOf(TypedUrl)
       /\ convertToGpxUrl(RequestedUrl) = RequestedUrl
       /\ enhancedConvertToGpxUrl(RequestedUrl) = RequestedUrl
       /\ convertToGpxUrl(TypedUrl) = enhancedConvertToGpxUrl(TypedUrl)

C28_Witness ==
    /\ DownloadStarted
    /\ TypedUrl = <<"https:", "connect.garmin.com", "activity", "7x", "myactivity", "123">>
    /\ RequestedUrl = <<"https:", "connect.garmin.com", "modern", "proxy",
                        "activity-service-1.1", "json", "activity", "7", "details">>
    /\ Resolved

(***************************************************************************)
(* C29.  In parseGpxTrack the shared point pattern scans every track block *)
(* from the block's start: when the point loop of a track ends, the        *)
(* pattern's scan position is back at the start, so the tracks extracted   *)
(* from a document are, in order, what each block yields when extracted    *)
(* alone, however many points the earlier tracks had.                      *)
(***************************************************************************)
\* The contents of the track blocks of a document, in order.
RECURSIVE BlocksFrom(_, _)
BlocksFrom(text, from) ==
    LET opens == { i \in from..Len(text) : text[i].k \in {"trk", "trkseg", "trkpt"} }
        first == CHOOSE i \in opens : \A j \in opens : i <= j
        closes == { c \in (first + 1)..Len(text) : text[c].k = "/trk" }
        last == CHOOSE c \in closes : \A d \in closes : c <= d
    IN  IF opens = {} THEN <<>>
        ELSE IF closes = {} THEN <<>>
        ELSE <<SubSeq(text, first + 1, last - 1)>> \o BlocksFrom(text, last + 1)

\* What a block yields as a document of its own.
ExtractedAlone(block, now) ==
    parseGpxTrack(<<[k |-> "trk"]>> \o block \o <<[k |-> "/trk"]>>, now)

ReadsOverlayFile ==
    /\ pc = "overlays" /\ cursor <= Len(opts.overlays)
    /\ IsThere(FileInTurn) /\ Has(files[FileInTurn], "gpx")

C29_ScanFromBlockStart ==
    [][(ReadsOverlayFile /\ cursor' = cursor + 1) =>
          LET blocks == BlocksFrom(files[FileInTurn].gpx, 1)
          IN  /\ Len(overlays') = Len(overlays) + 1
              /\ overlays'[Len(overlays')].tracks
                   = Flatten([b \in 1..Len(blocks) |-> ExtractedAlone(blocks[b], clock)])
              /\ \A b \in 1..Len(blocks) : pointLoop(blocks[b], 1, clock).lastIndex = 1]_vars

C29_Witness ==
    /\ pc = "overlays" /\ cursor = 2
    /\ Len(overlays) = 1 /\ overlays[1].source = OFile
    /\ Len(BlocksFrom(files[OFile].gpx, 1)) = 2
    /\ Len(overlays[1].tracks) = 2
    /\ Len(overlays[1].tracks[1].points) = 3
    /\ overlays[1].tracks[2].points = <<[lat |-> 7, lon |-> 5, at |-> 0]>>

=============================================================================
